---------------------------- MODULE Spec2Model ----------------------------
(***************************************************************************)
(* Inventory balance / projection reconciliation engine (kintone apps     *)
(* 760 transactions, 761 balances, 762 projection summaries).              *)
(*                                                                         *)
(* Conventions of the model                                                *)
(*  - a kintone record is a function from field codes to values;           *)
(*  - a calendar date is the number of days from "today" (Today = 0), so   *)
(*    the lexicographic order of 'YYYY-MM-DD' strings is the integer order; *)
(*  - quantities are integers; money is counted in hundredths, so that     *)
(*    rounding to 2 decimals is rounding to an integer;                    *)
(*  - the Japanese option values of the configuration are romanised        *)
(*    (nyuko = received, shukko = issued, tanaoroshi-chosei = adjustment,  *)
(*    shoki-zaiko = initial, yotei = planned, kakutei = confirmed,         *)
(*    torikeshi = cancelled, seijo = normal, zaiko-sho = low stock,        *)
(*    zaiko-gire = out of stock, shori-zumi = processed);                  *)
(*  - an identifier string is the sequence of its '-'-separated parts.     *)
(***************************************************************************)
EXTENDS Integers, Sequences, FiniteSets, TLC

VARIABLES
  txStore,      \* app 760: the transaction records, record id = index
  balStore,     \* app 761: the balance records, record id = index
  projStore,    \* app 762: the projection summary records, record id = index
  pending,      \* handlers of the current event that have not run yet
  lastRun,      \* the last run of updateInventoryProjection: its inputs and its list
  lastOp,       \* the last event or handler, and what it found
  seen,         \* the kinds of event that have happened
  nEvents,      \* the number of events so far
  sess,         \* the browser sessions of the interleaved specification
  call,         \* arguments and result of the last call of the costing function
  lastBatch     \* the last run of batchUpdateInventory: what it found and processed

vars == <<txStore, balStore, projStore, pending, lastRun, lastOp, seen, nEvents, sess, call, lastBatch>>

(***************************************************************************)
(* Configuration (inventory_config_v2.0.1.js)                              *)
(***************************************************************************)
TRANSACTION_FIELDS ==
  [ TRANSACTION_DATE |-> "transaction_date", TRANSACTION_TYPE |-> "transaction_type",
    STATUS |-> "status", ITEM_CODE |-> "item_code", QUANTITY |-> "quantity",
    WAREHOUSE |-> "warehouse", LOCATION |-> "location", UNIT_COST |-> "unit_cost",
    BEFORE_QTY |-> "before_qty", PHYSICAL_COUNT |-> "physical_count",
    PROCESSED_FLAG |-> "processed_flag", PO_NUMBER |-> "po_number" ]

BALANCE_FIELDS ==
  [ BALANCE_ID |-> "balance_id", ITEM_CODE |-> "item_code", WAREHOUSE |-> "warehouse",
    LOCATION |-> "location", CURRENT_QTY |-> "current_qty",
    SAFETY_STOCK |-> "safety_stock", AVERAGE_COST |-> "average_cost",
    INVENTORY_VALUE |-> "inventory_value",
    LAST_TRANSACTION_DATE |-> "last_transaction_date", ALERT_FLAG |-> "alert_flag" ]

PROJECTION_FIELDS ==
  [ SUMMARY_ID |-> "summary_id", SUMMARY_DATE |-> "summary_date",
    ITEM_CODE |-> "item_code", WAREHOUSE |-> "warehouse", LOCATION |-> "location",
    BEGINNING_QTY |-> "beginning_qty", ACTUAL_RECEIVED_QTY |-> "actual_received_qty",
    ACTUAL_ISSUED_QTY |-> "actual_issued_qty", ENDING_QTY |-> "ending_qty",
    PLANNED_RECEIVED_QTY |-> "planned_received_qty",
    PLANNED_ISSUED_QTY |-> "planned_issued_qty",
    PROJECTED_ENDING_QTY |-> "projected_ending_qty", ALERT_FLAG |-> "alert_flag" ]

TRANSACTION_TYPES ==
  [ RECEIVED |-> "nyuko", ISSUED |-> "shukko", ADJUSTMENT |-> "tanaoroshi-chosei",
    INITIAL |-> "shoki-zaiko" ]

STATUSES == [ PLANNED |-> "yotei", CONFIRMED |-> "kakutei", CANCELLED |-> "torikeshi" ]

ALERT_FLAGS ==
  [ NORMAL |-> "seijo", LOW |-> "zaiko-sho", OUT |-> "zaiko-gire",
    PLANNED_LOW |-> "yotei-zaiko-sho", PLANNED_OUT |-> "yotei-zaiko-gire" ]

\* obj.NAME in JavaScript: the property, or undefined when the object has none.
Prop(obj, name) == IF name \in DOMAIN obj THEN obj[name] ELSE "undefined"

(***************************************************************************)
(* Utilities (inventory_utils.js)                                          *)
(***************************************************************************)
\* getFieldValue: the value of the field, '' when the record has no such field.
getFieldValue(record, fieldCode) ==
  IF fieldCode \in DOMAIN record THEN record[fieldCode] ELSE ""

\* getNumberValue: parseFloat of the value, 0 when it is blank or absent.
getNumberValue(record, fieldCode) ==
  IF fieldCode \in DOMAIN record THEN record[fieldCode] ELSE 0

\* Math.round(n / d) for d > 0: the nearest integer, a half rounding up.
MathRound(n, d) == (2 * n + d) \div (2 * d)

\* A variant of roundDecimal that cuts the digits off instead of rounding.
roundDecimalCut(n, d) == n \div d

\* roundDecimal(num, 2) of the exact quotient n / d of an amount in hundredths
\* by a quantity.
roundDecimal(n, d) == MathRound(n, d)

\* The text of a date, formatDate(date, 'YYYY-MM-DD'), split at its hyphens.
formatDate(day) == <<"YYYY", "MM", ToString(day)>>

\* date.replace(/-/g, ''): the same date as one part, 'YYYYMMDD'.
RemoveHyphens(parts) == <<parts[1] \o parts[2] \o parts[3]>>


\* Utils.addDays(today, n) followed by Utils.formatDate.
addDays(day, n) == day + n

\* obj[k] = v
SetKey(obj, pair) ==
  IF pair[1] \in DOMAIN obj THEN [obj EXCEPT ![pair[1]] = pair[2]]
  ELSE obj @@ (pair[1] :> pair[2])

\* The pairs lo..hi set in order.  The range is halved, and the test on the
\* first half makes TLC compute it before the second, to keep the evaluation of
\* a long list shallow; the loops below are written the same way.
RECURSIVE ObjectRange(_, _, _, _)
ObjectRange(pairs, lo, hi, obj) ==
  IF lo > hi THEN obj
  ELSE IF lo = hi THEN SetKey(obj, pairs[lo])
  ELSE LET mid == (lo + hi) \div 2
           first == ObjectRange(pairs, lo, mid, obj)
       IN  IF DOMAIN first = {} THEN first ELSE ObjectRange(pairs, mid + 1, hi, first)

\* An object literal with computed keys, or a Map filled in order: a later pair
\* with the same key replaces an earlier one.
ObjectOf(pairs, obj) == ObjectRange(pairs, 1, Len(pairs), obj)

EmptyObject == [k \in {} |-> 0]

(***************************************************************************)
(* The record store (the kintone REST API as the scripts use it)           *)
(***************************************************************************)
\* GET /k/v1/records: the records a store still holds, in id order; a query
\* selects among them with SelectSeq.
StoredRecords(store) ==
  SelectSeq(store, LAMBDA r : ~r.deleted)

\* "order by transaction_date asc": a stable insertion sort on the date.
\* The record goes before the first record of a later date, after all others.
InsertByDate(sorted, r) ==
  LET later == { i \in DOMAIN sorted : r.transaction_date < sorted[i].transaction_date }
  IN  IF later = {} THEN Append(sorted, r)
      ELSE LET p == CHOOSE i \in later : \A j \in later : i <= j
           IN  SubSeq(sorted, 1, p - 1) \o <<r>> \o SubSeq(sorted, p, Len(sorted))

\* The records are inserted in the order they have: the first half, then the
\* second half.
RECURSIVE OrderByDate(_, _)
OrderByDate(records, sorted) ==
  IF records = <<>> THEN sorted
  ELSE IF Len(records) = 1 THEN InsertByDate(sorted, records[1])
  ELSE LET mid == Len(records) \div 2
           first == OrderByDate(SubSeq(records, 1, mid), sorted)
       IN  IF first = <<>> THEN first
           ELSE OrderByDate(SubSeq(records, mid + 1, Len(records)), first)

\* The fields of app 762 and the value each has in a record created without it.
ProjectionAppFields == { PROJECTION_FIELDS[n] : n \in DOMAIN PROJECTION_FIELDS }
ProjectionTextFields == {"summary_id", "item_code", "warehouse", "location", "alert_flag"}
BlankProjectionRecord(id) ==
  [ f \in ProjectionAppFields |->
      IF f = "summary_id" THEN <<>> ELSE IF f \in ProjectionTextFields THEN "" ELSE 0 ]
  @@ [ id |-> id, deleted |-> FALSE ]

\* The API writes the fields the app has and ignores field codes it has not.
WriteFields(record, data) ==
  [ f \in DOMAIN data \cap ProjectionAppFields |-> data[f] ] @@ record

\* POST /k/v1/record(s) on app 762.
PostProjection(store, data) ==
  Append(store, WriteFields(BlankProjectionRecord(Len(store) + 1), data))

\* PUT /k/v1/record(s) on app 762.
PutProjection(store, id, data) == [store EXCEPT ![id] = WriteFields(@, data)]


(***************************************************************************)
(* Projection Reconstructor and Summary Merger (projection script v2.0.2)  *)
(***************************************************************************)
PAST_DAYS == 30
FUTURE_DAYS == 90

\* new Date(): the day the scripts run on; dates are counted from it.
Today == 0

EmptyDaily ==
  [ received_qty |-> 0, issued_qty |-> 0,
    planned_received_qty |-> 0, planned_issued_qty |-> 0 ]

\* A variant of AddToDaily that adds a negative adjustment difference to the
\* issued quantity as it is, without taking its absolute value.
AddToDailySigned(daily, tx) ==
  LET status == getFieldValue(tx, TRANSACTION_FIELDS.STATUS)
      type == getFieldValue(tx, TRANSACTION_FIELDS.TRANSACTION_TYPE)
      quantity == getNumberValue(tx, TRANSACTION_FIELDS.QUANTITY)
      physicalCount == getNumberValue(tx, TRANSACTION_FIELDS.PHYSICAL_COUNT)
      beforeQty == getNumberValue(tx, TRANSACTION_FIELDS.BEFORE_QTY)
      diff == physicalCount - beforeQty
  IN  IF status = STATUSES.CONFIRMED
      THEN IF type = TRANSACTION_TYPES.RECEIVED \/ type = TRANSACTION_TYPES.INITIAL
           THEN [daily EXCEPT !.received_qty = @ + quantity]
           ELSE IF type = TRANSACTION_TYPES.ISSUED
           THEN [daily EXCEPT !.issued_qty = @ + quantity]
           ELSE IF type = TRANSACTION_TYPES.ADJUSTMENT
           THEN IF diff > 0 THEN [daily EXCEPT !.received_qty = @ + diff]
                ELSE IF diff < 0 THEN [daily EXCEPT !.issued_qty = @ + diff]
                ELSE daily
           ELSE daily
      ELSE IF status = STATUSES.PLANNED
      THEN IF type = TRANSACTION_TYPES.RECEIVED \/ type = TRANSACTION_TYPES.INITIAL
           THEN [daily EXCEPT !.planned_received_qty = @ + quantity]
           ELSE IF type = TRANSACTION_TYPES.ISSUED
           THEN [daily EXCEPT !.planned_issued_qty = @ + quantity]
           ELSE daily
      ELSE daily

\* The effect of one transaction on the tuple of its date.
AddToDaily(daily, tx) ==
  LET status == getFieldValue(tx, TRANSACTION_FIELDS.STATUS)
      type == getFieldValue(tx, TRANSACTION_FIELDS.TRANSACTION_TYPE)
      quantity == getNumberValue(tx, TRANSACTION_FIELDS.QUANTITY)
      physicalCount == getNumberValue(tx, TRANSACTION_FIELDS.PHYSICAL_COUNT)
      beforeQty == getNumberValue(tx, TRANSACTION_FIELDS.BEFORE_QTY)
      diff == physicalCount - beforeQty
  IN  IF status = STATUSES.CONFIRMED
      THEN IF type = TRANSACTION_TYPES.RECEIVED \/ type = TRANSACTION_TYPES.INITIAL
           THEN [daily EXCEPT !.received_qty = @ + quantity]
           ELSE IF type = TRANSACTION_TYPES.ISSUED
           THEN [daily EXCEPT !.issued_qty = @ + quantity]
           ELSE IF type = TRANSACTION_TYPES.ADJUSTMENT
           THEN IF diff > 0 THEN [daily EXCEPT !.received_qty = @ + diff]
                ELSE IF diff < 0 THEN [daily EXCEPT !.issued_qty = @ + (0 - diff)]
                ELSE daily
           ELSE daily
      ELSE IF status = STATUSES.PLANNED
      THEN IF type = TRANSACTION_TYPES.RECEIVED \/ type = TRANSACTION_TYPES.INITIAL
           THEN [daily EXCEPT !.planned_received_qty = @ + quantity]
           ELSE IF type = TRANSACTION_TYPES.ISSUED
           THEN [daily EXCEPT !.planned_issued_qty = @ + quantity]
           ELSE daily
      ELSE daily

\* aggregateTransactionsByDate: the map from each date that has a transaction
\* to its tuple.
RECURSIVE aggregateTransactionsByDate(_, _)
aggregateTransactionsByDate(transactions, dailyMap) ==
  IF transactions = <<>> THEN dailyMap
  ELSE LET tx == transactions[1]
           date == getFieldValue(tx, TRANSACTION_FIELDS.TRANSACTION_DATE)
           m == IF date \in DOMAIN dailyMap THEN dailyMap
                ELSE dailyMap @@ (date :> EmptyDaily)
       IN  aggregateTransactionsByDate(Tail(transactions),
                                       [m EXCEPT ![date] = AddToDaily(@, tx)])

\* dailyTransactions.get(dateStr) || { all zero }
DailyGet(dailyMap, date) ==
  IF date \in DOMAIN dailyMap THEN dailyMap[date] ELSE EmptyDaily

\* A variant of TodayOpening that forgets the transactions of today.
TodayOpeningUnanchored(currentQty, todayTx) == currentQty

\* The opening quantity of today, solved from the current quantity.
TodayOpening(currentQty, todayTx) ==
  currentQty - todayTx.received_qty + todayTx.issued_qty

\* One step of the running quantity of the backward pass.
PastRunning(pastRunningQty, dailyData) ==
  pastRunningQty - dailyData.received_qty + dailyData.issued_qty

\* A variant of PastEntry that adds the issued quantity instead of subtracting it.
PastEntryIssuedAdded(dateStr, pastRunningQty, dailyData) ==
  [ date |-> dateStr,
    opening_qty |-> pastRunningQty,
    received_qty |-> dailyData.received_qty,
    issued_qty |-> dailyData.issued_qty,
    ending_qty |-> pastRunningQty + dailyData.received_qty + dailyData.issued_qty,
    planned_received_qty |-> dailyData.planned_received_qty,
    planned_issued_qty |-> dailyData.planned_issued_qty,
    projected_ending_qty |->
      pastRunningQty + dailyData.received_qty + dailyData.issued_qty
        + dailyData.planned_received_qty - dailyData.planned_issued_qty ]

\* The entry pushed by the backward pass.
PastEntry(dateStr, pastRunningQty, dailyData) ==
  LET endingQty == pastRunningQty + dailyData.received_qty - dailyData.issued_qty
      projectedEndingQty ==
        endingQty + dailyData.planned_received_qty - dailyData.planned_issued_qty
  IN  [ date |-> dateStr,
        opening_qty |-> pastRunningQty,
        received_qty |-> dailyData.received_qty,
        issued_qty |-> dailyData.issued_qty,
        ending_qty |-> endingQty,
        planned_received_qty |-> dailyData.planned_received_qty,
        planned_issued_qty |-> dailyData.planned_issued_qty,
        projected_ending_qty |-> projectedEndingQty ]

\* One iteration of the backward pass: st holds pastRunningQty and summaryData.
PastStep(i, st, dailyMap) ==
  LET dateStr == addDays(Today, 0 - i)
      dailyData == DailyGet(dailyMap, dateStr)
      pastRunningQty == PastRunning(st.pastRunningQty, dailyData)
  IN  [ pastRunningQty |-> pastRunningQty,
        summaryData |-> Append(st.summaryData,
                               PastEntry(dateStr, pastRunningQty, dailyData)) ]

\* The iterations i = from, from - 1, ..., to in that order.
RECURSIVE PastRange(_, _, _, _)
PastRange(from, to, st, dailyMap) ==
  IF from < to THEN st
  ELSE IF from = to THEN PastStep(from, st, dailyMap)
  ELSE LET mid == (from + to) \div 2
           first == PastRange(from, mid + 1, st, dailyMap)
       IN  IF first.summaryData = <<>> THEN first ELSE PastRange(mid, to, first, dailyMap)

\* for (let i = PAST_DAYS; i > 0; i--): the oldest date comes first.
PastLoop(todayOpening, dailyMap) ==
  PastRange(PAST_DAYS, 1, [pastRunningQty |-> todayOpening, summaryData |-> <<>>],
            dailyMap).summaryData

\* The entry pushed by the forward pass.
FutureEntry(dateStr, openingQty, projectedOpeningQty, dailyData) ==
  LET endingQty == openingQty + dailyData.received_qty - dailyData.issued_qty
      projectedEndingQty ==
        projectedOpeningQty + dailyData.received_qty - dailyData.issued_qty
          + dailyData.planned_received_qty - dailyData.planned_issued_qty
  IN  [ date |-> dateStr,
        opening_qty |-> openingQty,
        received_qty |-> dailyData.received_qty,
        issued_qty |-> dailyData.issued_qty,
        ending_qty |-> endingQty,
        planned_received_qty |-> dailyData.planned_received_qty,
        planned_issued_qty |-> dailyData.planned_issued_qty,
        projected_ending_qty |-> projectedEndingQty ]

\* A variant of FutureStep that carries the opening quantity of the day to the
\* next day instead of its ending quantity.
FutureStepOpeningCarried(i, st, dailyMap) ==
  LET dateStr == addDays(Today, i)
      dailyData == DailyGet(dailyMap, dateStr)
      e == FutureEntry(dateStr, st.futureRunningQty, st.projectedRunningQty, dailyData)
  IN  [ futureRunningQty |-> e.opening_qty,
        projectedRunningQty |-> e.projected_ending_qty,
        summaryData |-> Append(st.summaryData, e) ]

\* One iteration of the forward pass: st holds futureRunningQty,
\* projectedRunningQty and summaryData.
FutureStep(i, st, dailyMap) ==
  LET dateStr == addDays(Today, i)
      dailyData == DailyGet(dailyMap, dateStr)
      e == FutureEntry(dateStr, st.futureRunningQty, st.projectedRunningQty, dailyData)
  IN  [ futureRunningQty |-> e.ending_qty,
        projectedRunningQty |-> e.projected_ending_qty,
        summaryData |-> Append(st.summaryData, e) ]

\* The iterations i = from, from + 1, ..., to in that order.
RECURSIVE FutureRange(_, _, _, _)
FutureRange(from, to, st, dailyMap) ==
  IF from > to THEN st
  ELSE IF from = to THEN FutureStep(from, st, dailyMap)
  ELSE LET mid == (from + to) \div 2
           first == FutureRange(from, mid, st, dailyMap)
       IN  IF first.summaryData = <<>> THEN first
           ELSE FutureRange(mid + 1, to, first, dailyMap)

\* A variant of FutureLoop that starts with tomorrow.
FutureLoopFromTomorrow(todayOpening, dailyMap, summaryData) ==
  FutureRange(1, FUTURE_DAYS,
              [ futureRunningQty |-> todayOpening, projectedRunningQty |-> todayOpening,
                summaryData |-> summaryData ],
              dailyMap).summaryData

\* for (let i = 0; i <= FUTURE_DAYS; i++)
FutureLoop(todayOpening, dailyMap, summaryData) ==
  FutureRange(0, FUTURE_DAYS,
              [ futureRunningQty |-> todayOpening, projectedRunningQty |-> todayOpening,
                summaryData |-> summaryData ],
              dailyMap).summaryData

\* The list summaryData that updateInventoryProjection builds from the current
\* quantity and the transactions of the window.
BuildSummaryData(currentQty, transactions) ==
  LET dailyTransactions == aggregateTransactionsByDate(transactions, EmptyObject)
      todayTx == DailyGet(dailyTransactions, Today)
      todayOpening == TodayOpening(currentQty, todayTx)
  IN  FutureLoop(todayOpening, dailyTransactions,
                 PastLoop(todayOpening, dailyTransactions))


\* The summary identifier of upsertSummaryRecords:
\* `SUM-${itemCode}-${warehouse}-${location}-${date without hyphens}`.
UpsertSummaryId(itemCode, warehouse, location, date) ==
  <<"SUM", itemCode, warehouse, location>> \o RemoveHyphens(formatDate(date))

\* existingMap: existingRecords.forEach(record => existingMap.set(summaryId, record)).
ExistingMap(existingRecords) ==
  ObjectOf([ i \in DOMAIN existingRecords |->
               << getFieldValue(existingRecords[i], PROJECTION_FIELDS.SUMMARY_ID),
                  existingRecords[i] >> ],
           EmptyObject)

\* A variant of ExistingGet that never finds the record.
ExistingGetMissing(existingMap, summaryId) == <<>>

\* existingMap.get(summaryId): the record stored under that id, if any.
ExistingGet(existingMap, summaryId) ==
  IF summaryId \in DOMAIN existingMap THEN <<existingMap[summaryId]>> ELSE <<>>

\* recordData: the object literal keyed by the configured field codes; where two
\* keys are the same the later one stays (f @@ g keeps f where both are defined).
RecordData(itemCode, warehouse, location, summaryId, data) ==
  (Prop(PROJECTION_FIELDS, "PROJECTED_ENDING_QTY") :> data.projected_ending_qty)
  @@ (Prop(PROJECTION_FIELDS, "PLANNED_ISSUED_QTY") :> data.planned_issued_qty)
  @@ (Prop(PROJECTION_FIELDS, "PLANNED_RECEIVED_QTY") :> data.planned_received_qty)
  @@ (Prop(PROJECTION_FIELDS, "ENDING_QTY") :> data.ending_qty)
  @@ (Prop(PROJECTION_FIELDS, "ISSUED_QTY") :> data.issued_qty)
  @@ (Prop(PROJECTION_FIELDS, "RECEIVED_QTY") :> data.received_qty)
  @@ (Prop(PROJECTION_FIELDS, "OPENING_QTY") :> data.opening_qty)
  @@ (Prop(PROJECTION_FIELDS, "LOCATION") :> location)
  @@ (Prop(PROJECTION_FIELDS, "WAREHOUSE") :> warehouse)
  @@ (Prop(PROJECTION_FIELDS, "ITEM_CODE") :> itemCode)
  @@ (Prop(PROJECTION_FIELDS, "SUMMARY_DATE") :> data.date)
  @@ (Prop(PROJECTION_FIELDS, "SUMMARY_ID") :> summaryId)

\* for (const data of summaryData): each entry with the fetched record that
\* carries its id (if any) and the recordData built for it.
ClassifyEntries(existingMap, itemCode, warehouse, location, summaryData) ==
  [ i \in DOMAIN summaryData |->
      LET data == summaryData[i]
          summaryId == UpsertSummaryId(itemCode, warehouse, location, data.date)
      IN  [ existing |-> ExistingGet(existingMap, summaryId),
            record |-> RecordData(itemCode, warehouse, location, summaryId, data) ] ]

\* recordsToCreate: the recordData of the entries no fetched record carries, in
\* the order of summaryData.
RecordsToCreate(classified) ==
  LET fresh == SelectSeq(classified, LAMBDA c : c.existing = <<>>)
  IN  [ k \in DOMAIN fresh |-> fresh[k].record ]

\* recordsToUpdate: { id, record } of the entries a fetched record carries.
RecordsToUpdate(classified) ==
  LET known == SelectSeq(classified, LAMBDA c : c.existing # <<>>)
  IN  [ k \in DOMAIN known |-> [ id |-> known[k].existing[1].id,
                                 record |-> known[k].record ] ]

\* POST /k/v1/records, chunk after chunk: the records are appended in order.
PostAll(store, records) ==
  store \o [ k \in DOMAIN records |->
               WriteFields(BlankProjectionRecord(Len(store) + k), records[k]) ]

\* The updates lo..hi applied in order.
RECURSIVE PutRange(_, _, _, _)
PutRange(store, updates, lo, hi) ==
  IF lo > hi THEN store
  ELSE IF lo = hi THEN PutProjection(store, updates[lo].id, updates[lo].record)
  ELSE LET mid == (lo + hi) \div 2
           first == PutRange(store, updates, lo, mid)
       IN  IF first = <<>> THEN first ELSE PutRange(first, updates, mid + 1, hi)

\* PUT /k/v1/records, chunk after chunk: the updates are applied in order.
PutAll(store, updates) == PutRange(store, updates, 1, Len(updates))

\* upsertSummaryRecords: app 762 after the creations and the updates.
upsertSummaryRecords(store, itemCode, warehouse, location, summaryData) ==
  LET startDate == summaryData[1].date
      endDate == summaryData[Len(summaryData)].date
      existingRecords ==
        SelectSeq(StoredRecords(store), LAMBDA r :
          /\ r[PROJECTION_FIELDS.ITEM_CODE] = itemCode
          /\ r[PROJECTION_FIELDS.WAREHOUSE] = warehouse
          /\ r[PROJECTION_FIELDS.LOCATION] = location
          /\ r[PROJECTION_FIELDS.SUMMARY_DATE] >= startDate
          /\ r[PROJECTION_FIELDS.SUMMARY_DATE] <= endDate)
      classified == ClassifyEntries(ExistingMap(existingRecords), itemCode, warehouse,
                                    location, summaryData)
  IN  PutAll(PostAll(store, RecordsToCreate(classified)), RecordsToUpdate(classified))


(***************************************************************************)
(* Balance Updater (inventory update script v2.0)                          *)
(***************************************************************************)
\* The item master (app 745) as the scripts read it: the safety stock per item.
ITEM_MASTER == [ A001 |-> [ safety_stock |-> 10 ] ]

BalanceId(itemCode, warehouse, location) == <<"BAL", itemCode, warehouse, location>>

\* calculateMovingAverageCost, costs in hundredths.
calculateMovingAverageCost(currentQty, currentCost, addQty, addCost) ==
  IF addQty <= 0 THEN currentCost
  ELSE LET currentAmount == currentQty * currentCost
           addAmount == addQty * addCost
           newQty == currentQty + addQty
       IN  IF newQty <= 0 THEN 0
           ELSE roundDecimal(currentAmount + addAmount, newQty)

\* determineAlertFlag
determineAlertFlag(currentQty, safetyStock) ==
  IF currentQty <= 0 THEN Prop(ALERT_FLAGS, "OUT_OF_STOCK")
  ELSE IF currentQty < safetyStock THEN Prop(ALERT_FLAGS, "LOW_STOCK")
  ELSE Prop(ALERT_FLAGS, "NORMAL")

\* A variant of BalanceRecords that takes the records of every balance id.
BalanceRecordsOfAnyKey(store, balanceId) == StoredRecords(store)

\* The records of app 761 stored under a balance id.
BalanceRecords(store, balanceId) ==
  SelectSeq(StoredRecords(store), LAMBDA r : r[BALANCE_FIELDS.BALANCE_ID] = balanceId)

\* getOrCreateBalanceRecord: the store after the call and the record returned.
getOrCreateBalanceRecord(store, itemCode, warehouse, location) ==
  LET balanceId == BalanceId(itemCode, warehouse, location)
      records == BalanceRecords(store, balanceId)
      newRecord ==
        [ id |-> Len(store) + 1, deleted |-> FALSE,
          balance_id |-> balanceId, item_code |-> itemCode,
          warehouse |-> warehouse, location |-> location,
          current_qty |-> 0,
          safety_stock |-> IF itemCode \in DOMAIN ITEM_MASTER
                           THEN ITEM_MASTER[itemCode].safety_stock ELSE 0,
          average_cost |-> 0, inventory_value |-> 0,
          alert_flag |-> Prop(ALERT_FLAGS, "OUT_OF_STOCK"),
          last_transaction_date |-> Today ]
  IN  IF Len(records) > 0
      THEN [store |-> store, record |-> records[1]]
      ELSE [store |-> Append(store, newRecord), record |-> newRecord]

\* A variant of BalanceEffect that blends the unit cost of an initial stock into
\* the average cost as it does for a receipt.
BalanceEffectInitialBlended(transactionRecord, currentQty, currentCost) ==
  LET transactionType == getFieldValue(transactionRecord, TRANSACTION_FIELDS.TRANSACTION_TYPE)
      quantity == getNumberValue(transactionRecord, TRANSACTION_FIELDS.QUANTITY)
      unitCost == getNumberValue(transactionRecord, TRANSACTION_FIELDS.UNIT_COST)
      physicalCount == getNumberValue(transactionRecord, TRANSACTION_FIELDS.PHYSICAL_COUNT)
  IN  IF transactionType = TRANSACTION_TYPES.RECEIVED
      THEN <<[newQty |-> currentQty + quantity,
              newCost |-> calculateMovingAverageCost(currentQty, currentCost,
                                                     quantity, unitCost)]>>
      ELSE IF transactionType = TRANSACTION_TYPES.ISSUED
      THEN <<[newQty |-> currentQty - quantity, newCost |-> currentCost]>>
      ELSE IF transactionType = TRANSACTION_TYPES.ADJUSTMENT
      THEN <<[newQty |-> physicalCount, newCost |-> currentCost]>>
      ELSE IF transactionType = TRANSACTION_TYPES.INITIAL
      THEN <<[newQty |-> quantity,
              newCost |-> calculateMovingAverageCost(currentQty, currentCost,
                                                     quantity, unitCost)]>>
      ELSE <<>>

\* The switch on the transaction type: the new quantity and cost, or nothing
\* for a type the switch does not know.
BalanceEffect(transactionRecord, currentQty, currentCost) ==
  LET transactionType == getFieldValue(transactionRecord, TRANSACTION_FIELDS.TRANSACTION_TYPE)
      quantity == getNumberValue(transactionRecord, TRANSACTION_FIELDS.QUANTITY)
      unitCost == getNumberValue(transactionRecord, TRANSACTION_FIELDS.UNIT_COST)
      physicalCount == getNumberValue(transactionRecord, TRANSACTION_FIELDS.PHYSICAL_COUNT)
  IN  IF transactionType = TRANSACTION_TYPES.RECEIVED
      THEN <<[newQty |-> currentQty + quantity,
              newCost |-> calculateMovingAverageCost(currentQty, currentCost,
                                                     quantity, unitCost)]>>
      ELSE IF transactionType = TRANSACTION_TYPES.ISSUED
      THEN <<[newQty |-> currentQty - quantity, newCost |-> currentCost]>>
      ELSE IF transactionType = TRANSACTION_TYPES.ADJUSTMENT
      THEN <<[newQty |-> physicalCount, newCost |-> currentCost]>>
      ELSE IF transactionType = TRANSACTION_TYPES.INITIAL
      THEN <<[newQty |-> quantity, newCost |-> unitCost]>>
      ELSE <<>>

\* The PUT that ends updateInventoryBalance: the balance record that was read,
\* with the quantity, cost, alert flag and date computed from what was read
\* (transactionDate || Utils.getToday(): today for a record without a date).
BalanceWrite(store, balanceRecord, transactionRecord) ==
  LET hasDate == TRANSACTION_FIELDS.TRANSACTION_DATE \in DOMAIN transactionRecord
      currentQty == getNumberValue(balanceRecord, BALANCE_FIELDS.CURRENT_QTY)
      currentCost == getNumberValue(balanceRecord, BALANCE_FIELDS.AVERAGE_COST)
      safetyStock == getNumberValue(balanceRecord, BALANCE_FIELDS.SAFETY_STOCK)
      effect == BalanceEffect(transactionRecord, currentQty, currentCost)
  IN  IF effect = <<>> THEN store
      ELSE [store EXCEPT ![balanceRecord.id] =
              [@ EXCEPT !.current_qty = effect[1].newQty,
                        !.average_cost = effect[1].newCost,
                        !.alert_flag = determineAlertFlag(effect[1].newQty, safetyStock),
                        !.last_transaction_date =
                           IF hasDate
                           THEN transactionRecord[TRANSACTION_FIELDS.TRANSACTION_DATE]
                           ELSE Today]]

\* updateInventoryBalance: app 761 after the call.
updateInventoryBalance(store, transactionRecord) ==
  LET itemCode == getFieldValue(transactionRecord, TRANSACTION_FIELDS.ITEM_CODE)
      warehouse == getFieldValue(transactionRecord, TRANSACTION_FIELDS.WAREHOUSE)
      location == getFieldValue(transactionRecord, TRANSACTION_FIELDS.LOCATION)
  IN  IF itemCode = "" \/ warehouse = "" \/ location = "" THEN store
      ELSE LET got == getOrCreateBalanceRecord(store, itemCode, warehouse, location)
           IN  BalanceWrite(got.store, got.record, transactionRecord)


\* A variant of checkStockoutAlert that reports the last date found, not the first.
checkStockoutAlertLast(summaryData) ==
  LET hits == { k \in DOMAIN summaryData :
                  summaryData[k].date > Today /\ summaryData[k].projected_ending_qty <= 0 }
  IN  IF hits = {} THEN <<>>
      ELSE <<summaryData[CHOOSE k \in hits : \A h \in hits : h <= k].date>>

\* checkStockoutAlert: the date of the first entry of the list, in list order,
\* that is dated after today with a projected ending quantity <= 0; nothing when
\* the loop finds none and no alert is shown.
checkStockoutAlert(summaryData) ==
  LET hits == { k \in DOMAIN summaryData :
                  summaryData[k].date > Today /\ summaryData[k].projected_ending_qty <= 0 }
  IN  IF hits = {} THEN <<>>
      ELSE <<summaryData[CHOOSE k \in hits : \A h \in hits : k <= h].date>>

\* updateInventoryProjection: what it reads (the current quantity of the balance
\* record and the transactions of the window, by date), the list it builds and
\* app 762 after the merge.
updateInventoryProjection(tx, bal, proj, itemCode, warehouse, location) ==
  LET startDate == addDays(Today, 0 - PAST_DAYS)
      endDate == addDays(Today, FUTURE_DAYS)
      balanceRecords == BalanceRecords(bal, BalanceId(itemCode, warehouse, location))
      currentQty == IF Len(balanceRecords) > 0
                    THEN getNumberValue(balanceRecords[1], BALANCE_FIELDS.CURRENT_QTY)
                    ELSE 0
      transactions ==
        OrderByDate(
          SelectSeq(StoredRecords(tx), LAMBDA r :
            /\ r[TRANSACTION_FIELDS.ITEM_CODE] = itemCode
            /\ r[TRANSACTION_FIELDS.WAREHOUSE] = warehouse
            /\ r[TRANSACTION_FIELDS.LOCATION] = location
            /\ r[TRANSACTION_FIELDS.TRANSACTION_DATE] >= startDate
            /\ r[TRANSACTION_FIELDS.TRANSACTION_DATE] <= endDate),
          <<>>)
      summaryData == BuildSummaryData(currentQty, transactions)
  IN  [ currentQty |-> currentQty, transactions |-> transactions,
        summaryData |-> summaryData,
        store |-> upsertSummaryRecords(proj, itemCode, warehouse, location, summaryData),
        stockout |-> checkStockoutAlert(summaryData) ]

\* A variant of getAffectedItems that returns the key whatever its parts are.
getAffectedItemsUnchecked(record) ==
  <<[ itemCode |-> getFieldValue(record, TRANSACTION_FIELDS.ITEM_CODE),
      warehouse |-> getFieldValue(record, TRANSACTION_FIELDS.WAREHOUSE),
      location |-> getFieldValue(record, TRANSACTION_FIELDS.LOCATION) ]>>

\* getAffectedItems: the location key of a record, nothing when a part is missing.
getAffectedItems(record) ==
  LET itemCode == getFieldValue(record, TRANSACTION_FIELDS.ITEM_CODE)
      warehouse == getFieldValue(record, TRANSACTION_FIELDS.WAREHOUSE)
      location == getFieldValue(record, TRANSACTION_FIELDS.LOCATION)
  IN  IF itemCode = "" \/ warehouse = "" \/ location = "" THEN <<>>
      ELSE <<[itemCode |-> itemCode, warehouse |-> warehouse, location |-> location]>>

(***************************************************************************)
(* Batch update (inventory batch update script v2.1)                       *)
(***************************************************************************)
MAX_RECORDS == 500

\* getUnprocessedRecords: processed_flag not in ("shori-zumi")
\* order by transaction_date asc limit MAX_RECORDS.
getUnprocessedRecords(store) ==
  LET found == OrderByDate(
                 SelectSeq(StoredRecords(store), LAMBDA r :
                   "shori-zumi" \notin r[TRANSACTION_FIELDS.PROCESSED_FLAG]),
                 <<>>)
  IN  IF Len(found) > MAX_RECORDS THEN SubSeq(found, 1, MAX_RECORDS) ELSE found

\* groupByItemWarehouseLocation: the groups in the order their keys first appear;
\* a record without item, warehouse or location is skipped.  The records are
\* taken in their order: the first half, then the second half.
RECURSIVE groupByItemWarehouseLocation(_, _)
groupByItemWarehouseLocation(records, groups) ==
  IF records = <<>> THEN groups
  ELSE IF Len(records) > 1
  THEN LET mid == Len(records) \div 2
           first == groupByItemWarehouseLocation(SubSeq(records, 1, mid), groups)
       IN  IF first = <<>>
           THEN groupByItemWarehouseLocation(SubSeq(records, mid + 1, Len(records)), <<>>)
           ELSE groupByItemWarehouseLocation(SubSeq(records, mid + 1, Len(records)), first)
  ELSE LET record == records[1]
           itemCode == getFieldValue(record, TRANSACTION_FIELDS.ITEM_CODE)
           warehouse == getFieldValue(record, TRANSACTION_FIELDS.WAREHOUSE)
           location == getFieldValue(record, TRANSACTION_FIELDS.LOCATION)
           key == <<itemCode, warehouse, location>>
           at == { g \in DOMAIN groups : groups[g].key = key }
           next == IF itemCode = "" \/ warehouse = "" \/ location = "" THEN groups
                   ELSE IF at = {}
                   THEN Append(groups, [key |-> key, records |-> <<record>>])
                   ELSE [g \in DOMAIN groups |->
                           IF g \in at
                           THEN [groups[g] EXCEPT !.records = Append(@, record)]
                           ELSE groups[g]]
       IN  next

\* A variant of ConfirmedRecords that keeps the records of every status.
ConfirmedRecordsUnfiltered(records) == records

\* records.filter(r => status === 'kakutei')
ConfirmedRecords(records) ==
  SelectSeq(records, LAMBDA r : getFieldValue(r, TRANSACTION_FIELDS.STATUS) = "kakutei")

\* The loop of updateBalanceForGroup over the confirmed records: the running
\* quantity and the running total value (in hundredths).
RECURSIVE GroupBalanceLoop(_, _, _)
GroupBalanceLoop(confirmedRecords, currentQty, totalValue) ==
  IF confirmedRecords = <<>> THEN [currentQty |-> currentQty, totalValue |-> totalValue]
  ELSE LET record == confirmedRecords[1]
           transactionType == getFieldValue(record, TRANSACTION_FIELDS.TRANSACTION_TYPE)
           quantity == getNumberValue(record, TRANSACTION_FIELDS.QUANTITY)
           unitCost == getNumberValue(record, TRANSACTION_FIELDS.UNIT_COST)
           physicalCount == getNumberValue(record, TRANSACTION_FIELDS.PHYSICAL_COUNT)
       IN  IF transactionType = "nyuko"
           THEN GroupBalanceLoop(Tail(confirmedRecords), currentQty + quantity,
                                 totalValue + quantity * unitCost)
           ELSE IF transactionType = "shukko"
           THEN GroupBalanceLoop(Tail(confirmedRecords), currentQty - quantity, totalValue)
           ELSE IF transactionType = "tanaoroshi"
           THEN GroupBalanceLoop(Tail(confirmedRecords), physicalCount, totalValue)
           ELSE IF transactionType = "shoki-zaiko"
           THEN GroupBalanceLoop(Tail(confirmedRecords), quantity, quantity * unitCost)
           ELSE GroupBalanceLoop(Tail(confirmedRecords), currentQty, totalValue)

\* getAlertFlag
getAlertFlag(currentQty, safetyStock) ==
  IF currentQty <= 0 THEN "zaiko-gire"
  ELSE IF currentQty < safetyStock THEN "zaiko-sho"
  ELSE "seijo"

\* The average cost the batch stores: totalValue / currentQty rounded to 2
\* decimals, 0 when the quantity is not positive.
GroupAverageCost(currentQty, totalValue) ==
  IF currentQty > 0 THEN MathRound(totalValue, currentQty) ELSE 0

\* updateBalanceForGroup: app 761 after the call.
updateBalanceForGroup(store, records) ==
  LET firstRecord == records[1]
      itemCode == getFieldValue(firstRecord, TRANSACTION_FIELDS.ITEM_CODE)
      warehouse == getFieldValue(firstRecord, TRANSACTION_FIELDS.WAREHOUSE)
      location == getFieldValue(firstRecord, TRANSACTION_FIELDS.LOCATION)
      confirmedRecords == ConfirmedRecords(records)
      balanceId == BalanceId(itemCode, warehouse, location)
      found == BalanceRecords(store, balanceId)
      startQty == IF found # <<>>
                  THEN getNumberValue(found[1], BALANCE_FIELDS.CURRENT_QTY) ELSE 0
      startValue == IF found # <<>>
                    THEN startQty * getNumberValue(found[1], BALANCE_FIELDS.AVERAGE_COST)
                    ELSE 0
      end == GroupBalanceLoop(confirmedRecords, startQty, startValue)
      safetyStock == IF found # <<>>
                     THEN getNumberValue(found[1], BALANCE_FIELDS.SAFETY_STOCK) ELSE 0
      averageCost == GroupAverageCost(end.currentQty, end.totalValue)
      inventoryValue == IF end.currentQty > 0 THEN MathRound(end.totalValue, 100) ELSE 0
      lastDate == getFieldValue(confirmedRecords[Len(confirmedRecords)],
                                TRANSACTION_FIELDS.TRANSACTION_DATE)
  IN  IF records = <<>> \/ confirmedRecords = <<>> THEN store
      ELSE IF found # <<>>
      THEN [store EXCEPT ![found[1].id] =
              [@ EXCEPT !.current_qty = end.currentQty,
                        !.average_cost = averageCost,
                        !.inventory_value = inventoryValue,
                        !.alert_flag = getAlertFlag(end.currentQty, safetyStock),
                        !.last_transaction_date = lastDate]]
      ELSE Append(store,
             [ id |-> Len(store) + 1, deleted |-> FALSE,
               balance_id |-> balanceId, item_code |-> itemCode,
               warehouse |-> warehouse, location |-> location,
               current_qty |-> end.currentQty, safety_stock |-> 0,
               average_cost |-> averageCost, inventory_value |-> inventoryValue,
               alert_flag |-> getAlertFlag(end.currentQty, safetyStock),
               last_transaction_date |-> lastDate ])


\* The per-date totals of updateProjectionForGroup, in the order the dates
\* first appear among the confirmed records.
RECURSIVE GroupDailyTransactions(_, _)
GroupDailyTransactions(confirmedRecords, daily) ==
  IF confirmedRecords = <<>> THEN daily
  ELSE LET record == confirmedRecords[1]
           date == getFieldValue(record, TRANSACTION_FIELDS.TRANSACTION_DATE)
           transactionType == getFieldValue(record, TRANSACTION_FIELDS.TRANSACTION_TYPE)
           quantity == getNumberValue(record, TRANSACTION_FIELDS.QUANTITY)
           at == { d \in DOMAIN daily : daily[d].date = date }
           d0 == IF at = {}
                 THEN Append(daily, [date |-> date, receivedQty |-> 0, issuedQty |-> 0])
                 ELSE daily
           add(q) == IF transactionType = "nyuko" \/ transactionType = "shoki-zaiko"
                     THEN [q EXCEPT !.receivedQty = @ + quantity]
                     ELSE IF transactionType = "shukko"
                     THEN [q EXCEPT !.issuedQty = @ + quantity]
                     ELSE q
       IN  GroupDailyTransactions(
             Tail(confirmedRecords),
             [d \in DOMAIN d0 |-> IF d0[d].date = date THEN add(d0[d]) ELSE d0[d]])

\* The summary identifier of the batch: `SUM-${date}-${itemCode}-${warehouse}-${location}`.
BatchSummaryId(itemCode, warehouse, location, date) ==
  <<"SUM">> \o formatDate(date) \o <<itemCode, warehouse, location>>

\* getProjectionRecord: the first record of app 762 stored under the id.
getProjectionRecord(store, summaryId) ==
  LET found == SelectSeq(StoredRecords(store), LAMBDA r :
                 r[PROJECTION_FIELDS.SUMMARY_ID] = summaryId)
  IN  IF found # <<>> THEN <<found[1]>> ELSE <<>>

\* The fields the batch writes into a summary record it found.
GroupUpdateData(summaryRecord, quantities) ==
  LET actualReceivedQty ==
        getNumberValue(summaryRecord, PROJECTION_FIELDS.ACTUAL_RECEIVED_QTY)
          + quantities.receivedQty
      actualIssuedQty ==
        getNumberValue(summaryRecord, PROJECTION_FIELDS.ACTUAL_ISSUED_QTY)
          + quantities.issuedQty
      beginningQty == getNumberValue(summaryRecord, PROJECTION_FIELDS.BEGINNING_QTY)
  IN  ObjectOf(
        << <<PROJECTION_FIELDS.ACTUAL_RECEIVED_QTY, actualReceivedQty>>,
           <<PROJECTION_FIELDS.ACTUAL_ISSUED_QTY, actualIssuedQty>>,
           <<PROJECTION_FIELDS.ENDING_QTY,
             beginningQty + actualReceivedQty - actualIssuedQty>> >>,
        EmptyObject)

\* The fields of a summary record the batch creates.
GroupCreateData(summaryId, itemCode, warehouse, location, quantities) ==
  ObjectOf(
    << <<PROJECTION_FIELDS.SUMMARY_ID, summaryId>>,
       <<PROJECTION_FIELDS.SUMMARY_DATE, quantities.date>>,
       <<PROJECTION_FIELDS.ITEM_CODE, itemCode>>,
       <<PROJECTION_FIELDS.WAREHOUSE, warehouse>>,
       <<PROJECTION_FIELDS.LOCATION, location>>,
       <<PROJECTION_FIELDS.BEGINNING_QTY, 0>>,
       <<PROJECTION_FIELDS.ACTUAL_RECEIVED_QTY, quantities.receivedQty>>,
       <<PROJECTION_FIELDS.ACTUAL_ISSUED_QTY, quantities.issuedQty>>,
       <<PROJECTION_FIELDS.ENDING_QTY, quantities.receivedQty - quantities.issuedQty>> >>,
    EmptyObject)

\* The loop over the dates: app 762 after it, and for every record that was
\* found, its id with the quantities recomputed for its date.
RECURSIVE GroupSummaryLoop(_, _, _, _, _)
GroupSummaryLoop(acc, itemCode, warehouse, location, daily) ==
  IF daily = <<>> THEN acc
  ELSE LET quantities == daily[1]
           summaryId == BatchSummaryId(itemCode, warehouse, location, quantities.date)
           summaryRecord == getProjectionRecord(acc.store, summaryId)
           next ==
             IF summaryRecord # <<>>
             THEN [ store |-> PutProjection(acc.store, summaryRecord[1].id,
                                            GroupUpdateData(summaryRecord[1], quantities)),
                    found |-> Append(acc.found,
                                [ id |-> summaryRecord[1].id,
                                  record |-> [ actual_received_qty |-> quantities.receivedQty,
                                               actual_issued_qty |-> quantities.issuedQty ] ]) ]
             ELSE [ store |-> PostProjection(acc.store,
                                GroupCreateData(summaryId, itemCode, warehouse, location,
                                                quantities)),
                    found |-> acc.found ]
       IN  GroupSummaryLoop(next, itemCode, warehouse, location, Tail(daily))

\* updateProjectionForGroup
updateProjectionForGroup(acc, records) ==
  LET firstRecord == records[1]
      itemCode == getFieldValue(firstRecord, TRANSACTION_FIELDS.ITEM_CODE)
      warehouse == getFieldValue(firstRecord, TRANSACTION_FIELDS.WAREHOUSE)
      location == getFieldValue(firstRecord, TRANSACTION_FIELDS.LOCATION)
      confirmedRecords == ConfirmedRecords(records)
  IN  IF records = <<>> \/ confirmedRecords = <<>> THEN acc
      ELSE GroupSummaryLoop(acc, itemCode, warehouse, location,
                            GroupDailyTransactions(confirmedRecords, <<>>))

\* markRecordsAsProcessed: app 760 with the processed flag of the records set.
markRecordsAsProcessed(store, recordIds) ==
  [ i \in DOMAIN store |->
      IF i \in recordIds
      THEN [store[i] EXCEPT !.processed_flag = {"shori-zumi"}]
      ELSE store[i] ]

\* updateBalanceForGroup when the GET of getBalanceRecord is rejected: the
\* helper logs the error and returns null, so the group is computed from zero
\* and createBalanceRecord posts a new record.
BalanceForGroupNotFound(store, records) ==
  LET created == updateBalanceForGroup(<<>>, records)
  IN  IF created = <<>> THEN store
      ELSE Append(store, [created[1] EXCEPT !.id = Len(store) + 1])

\* The requests that the API rejects during a run, per location key: "balance"
\* is the PUT or POST of the balance record, "mark" the PUT of the processed
\* flags, "lookup" the GET of the balance record, "summary" the PUT or POST of
\* the summary records.  A key that is not listed has
\* all its requests accepted.
NoFaults == [ k \in {} |-> "none" ]
FaultOf(faults, key) == IF key \in DOMAIN faults THEN faults[key] ELSE "none"

\* A variant of GroupFailed that records the error without counting the records.
GroupFailedUncounted(st, key, records) ==
  [st EXCEPT !.errors = Append(@, [ key |-> key,
                                     recordIds |-> [ i \in DOMAIN records |-> records[i].id ] ])]

\* The catch block of the loop: errorCount += records.length; errors.push(...).
GroupFailed(st, key, records) ==
  [st EXCEPT !.errorCount = @ + Len(records),
             !.errors = Append(@, [ key |-> key,
                                     recordIds |-> [ i \in DOMAIN records |-> records[i].id ] ])]

\* The rest of an iteration once the balance and the summaries are written:
\* markRecordsAsProcessed and processedCount += records.length, or the catch
\* block when the write of the flags is rejected.
GroupAfterWrites(st, fault, bal, prj, key, records) ==
  IF fault = "mark"
  THEN GroupFailed([st EXCEPT !.bal = bal, !.proj = prj.store, !.found = prj.found],
                   key, records)
  ELSE [st EXCEPT !.tx = markRecordsAsProcessed(@, { records[i].id : i \in DOMAIN records }),
                  !.bal = bal, !.proj = prj.store, !.found = prj.found,
                  !.processedCount = @ + Len(records)]

\* updateProjectionForGroup when the API rejects the write of every summary
\* record of the group: the catch block inside the loop over the dates logs the
\* error and the loop goes on, so app 762 stays as it was and nothing is thrown.
ProjectionForGroupRejected(acc, records) == acc

\* The loop has reached the group of the key.
GroupAttempted(st, key) == [st EXCEPT !.attempts = Append(@, key)]

\* One iteration of the loop over the groups.  updateBalanceForGroup throws when
\* its write is rejected (it writes only when the group has a confirmed record)
\* and goes on without a balance record when its lookup is rejected,
\* updateProjectionForGroup catches its own errors, markRecordsAsProcessed
\* throws when its write is rejected; what was written before the throw stays.
GroupStep(st, group) ==
  IF FaultOf(st.faults, group.key) = "balance" /\ ConfirmedRecords(group.records) # <<>>
  THEN GroupFailed(GroupAttempted(st, group.key), group.key, group.records)
  ELSE GroupAfterWrites(
         GroupAttempted(st, group.key),
         FaultOf(st.faults, group.key),
         IF FaultOf(st.faults, group.key) = "lookup"
         THEN BalanceForGroupNotFound(st.bal, group.records)
         ELSE updateBalanceForGroup(st.bal, group.records),
         IF FaultOf(st.faults, group.key) = "summary"
         THEN ProjectionForGroupRejected([store |-> st.proj, found |-> st.found],
                                         group.records)
         ELSE updateProjectionForGroup([store |-> st.proj, found |-> st.found],
                                       group.records),
         group.key, group.records)

\* for (const [key, records] of Object.entries(groups)): the three stores and
\* the counters after every group was handled.
RECURSIVE BatchGroupLoop(_, _)
BatchGroupLoop(st, groups) ==
  IF groups = <<>> THEN st
  ELSE BatchGroupLoop(GroupStep(st, groups[1]), Tail(groups))

\* What a run leaves and returns: the stores, the groups it formed, the
\* iterations of its loop and the object it returns ({ success: true,
\* processedCount: 0 } when it found no unprocessed record).
BatchReturn(end, groups, unprocessedRecords) ==
  [ tx |-> end.tx, bal |-> end.bal, proj |-> end.proj, found |-> end.found,
    processedCount |-> end.processedCount,
    groups |-> groups, attempts |-> end.attempts,
    result |-> IF unprocessedRecords = <<>>
               THEN [ success |-> TRUE, processedCount |-> 0 ]
               ELSE [ success |-> end.errorCount = 0,
                      processedCount |-> end.processedCount,
                      errorCount |-> end.errorCount,
                      errors |-> end.errors ] ]

\* The groups of the unprocessed records handled one after the other.
BatchGroups(tx, bal, proj, faults, groups, unprocessedRecords) ==
  BatchReturn(BatchGroupLoop([ tx |-> tx, bal |-> bal, proj |-> proj, found |-> <<>>,
                               faults |-> faults, attempts |-> <<>>,
                               processedCount |-> 0, errorCount |-> 0, errors |-> <<>> ],
                             groups),
              groups, unprocessedRecords)

\* The unprocessed records grouped by location key.
BatchRecords(tx, bal, proj, faults, unprocessedRecords) ==
  BatchGroups(tx, bal, proj, faults,
              groupByItemWarehouseLocation(unprocessedRecords, <<>>), unprocessedRecords)

\* batchUpdateInventory with the faults of the API during the run.
BatchWithFaults(tx, bal, proj, faults) ==
  BatchRecords(tx, bal, proj, faults, getUnprocessedRecords(tx))

\* batchUpdateInventory when the API accepts every write.
batchUpdateInventory(tx, bal, proj) == BatchWithFaults(tx, bal, proj, NoFaults)


(***************************************************************************)
(* Purchase order integration (PO integration script v2.0)                 *)
(***************************************************************************)
PO_FIELDS == [ PO_NUMBER |-> "po_number", PO_ITEMS |-> "po_items" ]
PO_ITEM_FIELDS == [ ITEM_CODE |-> "item_code", QUANTITY |-> "quantity" ]

\* getPORecord: the first record of app 748 with the PO number, nothing when
\* the number is empty or no record has it.
getPORecord(po, poNumber) ==
  LET found == SelectSeq(po, LAMBDA r : r[PO_FIELDS.PO_NUMBER] = poNumber)
  IN  IF poNumber = "" \/ found = <<>> THEN <<>> ELSE <<found[1]>>

\* getPOItemRow: the first row of the table po_items with the item code.
getPOItemRow(poRecord, itemCode) ==
  LET poItems == poRecord[PO_FIELDS.PO_ITEMS]
      rows == SelectSeq(poItems, LAMBDA row : row[PO_ITEM_FIELDS.ITEM_CODE] = itemCode)
  IN  IF itemCode = "" \/ rows = <<>> THEN <<>> ELSE <<rows[1]>>

\* totalReceivedQty += qty over the records of the query.
RECURSIVE TotalQuantity(_)
TotalQuantity(records) ==
  IF records = <<>> THEN 0
  ELSE getNumberValue(records[1], TRANSACTION_FIELDS.QUANTITY) + TotalQuantity(Tail(records))

\* calculateReceivedQty: the quantity of the stored records that are confirmed
\* receipts of the PO number and the item code.
calculateReceivedQty(tx, poNumber, itemCode) ==
  TotalQuantity(
    SelectSeq(StoredRecords(tx), LAMBDA r :
      /\ getFieldValue(r, TRANSACTION_FIELDS.PO_NUMBER) = poNumber
      /\ r[TRANSACTION_FIELDS.ITEM_CODE] = itemCode
      /\ r[TRANSACTION_FIELDS.TRANSACTION_TYPE] = "nyuko"
      /\ r[TRANSACTION_FIELDS.STATUS] = "kakutei"))

\* validateReceiving: valid, or the reason of the refusal.
validateReceiving(po, tx, poNumber, itemCode, receivingQty) ==
  LET poRecord == getPORecord(po, poNumber)
      itemRow == getPOItemRow(poRecord[1], itemCode)
      orderedQty == getNumberValue(itemRow[1], PO_ITEM_FIELDS.QUANTITY)
      receivedQty == calculateReceivedQty(tx, poNumber, itemCode)
      newReceivedQty == receivedQty + receivingQty
  IN  IF poNumber = "" THEN [ valid |-> TRUE ]
      ELSE IF poRecord = <<>> THEN [ valid |-> FALSE, message |-> "po-not-found" ]
      ELSE IF itemRow = <<>> THEN [ valid |-> FALSE, message |-> "item-not-found" ]
      ELSE IF orderedQty = 0 THEN [ valid |-> FALSE, message |-> "ordered-zero" ]
      ELSE IF newReceivedQty > orderedQty
      THEN [ valid |-> FALSE, message |-> "over-delivery" ]
      ELSE [ valid |-> TRUE, orderedQty |-> orderedQty,
             currentReceivedQty |-> receivedQty, newReceivedQty |-> newReceivedQty ]

\* The handler of app.record.create.submit and app.record.edit.submit: the
\* message it puts into event.error, nothing when the record may be saved.
ReceivingError(po, tx, record) ==
  LET poNumber == getFieldValue(record, TRANSACTION_FIELDS.PO_NUMBER)
      transactionType == getFieldValue(record, TRANSACTION_FIELDS.TRANSACTION_TYPE)
      status == getFieldValue(record, TRANSACTION_FIELDS.STATUS)
      itemCode == getFieldValue(record, TRANSACTION_FIELDS.ITEM_CODE)
      quantity == getNumberValue(record, TRANSACTION_FIELDS.QUANTITY)
      validation == validateReceiving(po, tx, poNumber, itemCode, quantity)
  IN  IF transactionType = "nyuko" /\ status = "kakutei" /\ poNumber # ""
         /\ ~validation.valid
      THEN <<validation.message>>
      ELSE <<>>

(***************************************************************************)
(* The entry points while the API rejects a request                        *)
(***************************************************************************)
\* How a call of an entry point ends: it returns (value holds what it returns,
\* nothing for undefined) or its catch block rethrows the error.
Returned(value) == [ outcome |-> "returned", value |-> value ]
Thrown == [ outcome |-> "thrown", value |-> <<>> ]

\* updateInventoryBalance while the API rejects the GET of the balance record
\* (fault "get") or the PUT that ends the call (fault "put"): app 761 after the
\* call and how the call ends.  The function has no return value.
BalanceCall(store, transactionRecord, fault) ==
  LET itemCode == getFieldValue(transactionRecord, TRANSACTION_FIELDS.ITEM_CODE)
      warehouse == getFieldValue(transactionRecord, TRANSACTION_FIELDS.WAREHOUSE)
      location == getFieldValue(transactionRecord, TRANSACTION_FIELDS.LOCATION)
      got == getOrCreateBalanceRecord(store, itemCode, warehouse, location)
      effect == BalanceEffect(transactionRecord,
                              getNumberValue(got.record, BALANCE_FIELDS.CURRENT_QTY),
                              getNumberValue(got.record, BALANCE_FIELDS.AVERAGE_COST))
  IN  IF itemCode = "" \/ warehouse = "" \/ location = ""
      THEN [ store |-> store, end |-> Returned(<<>>) ]
      ELSE IF fault = "get"
      THEN [ store |-> store, end |-> Thrown ]
      ELSE IF effect = <<>>
      THEN [ store |-> got.store, end |-> Returned(<<>>) ]
      ELSE IF fault = "put"
      THEN [ store |-> got.store, end |-> Thrown ]
      ELSE [ store |-> updateInventoryBalance(store, transactionRecord),
             end |-> Returned(<<>>) ]

\* updateInventoryProjection while the API rejects a read (fault "get") or the
\* first request of upsertSummaryRecords that writes (fault "put"): app 762
\* after the call and how the call ends.  The function has no return value.
ProjectionCall(tx, bal, proj, itemCode, warehouse, location, fault) ==
  IF fault \in {"get", "put"}
  THEN [ store |-> proj, end |-> Thrown ]
  ELSE [ store |-> updateInventoryProjection(tx, bal, proj, itemCode, warehouse,
                                             location).store,
         end |-> Returned(<<>>) ]

\* What a run of the batch that reached its return statement leaves.
BatchCompleted(run) ==
  [ tx |-> run.tx, bal |-> run.bal, proj |-> run.proj, end |-> Returned(<<run.result>>) ]

\* batchUpdateInventory while the API rejects the GET of getUnprocessedRecords
\* (fault "get") or the writes of faults: the stores after the call and how the
\* call ends.
BatchCall(tx, bal, proj, fault, faults) ==
  IF fault = "get"
  THEN [ tx |-> tx, bal |-> bal, proj |-> proj, end |-> Thrown ]
  ELSE BatchCompleted(BatchWithFaults(tx, bal, proj, faults))

(***************************************************************************)
(* Inputs                                                                  *)
(***************************************************************************)
MaxTx == 2       \* transaction records in app 760
MaxEvents == 3   \* events (create, edit, delete) of one behaviour
MaxDay == 1      \* transactions are dated Today - MaxDay .. Today + MaxDay

K1 == [itemCode |-> "A001", warehouse |-> "TKY", location |-> "A-01"]
K2 == [itemCode |-> "A001", warehouse |-> "TKY", location |-> "B-02"]
KNoLocation == [itemCode |-> "A001", warehouse |-> "TKY", location |-> ""]
LocationKeys == {K1, K2}

TxDates == (Today - MaxDay) .. (Today + MaxDay)

\* A transaction as the user enters it; the quantities go with the type:
\* a receipt of 100 at 10.00, an issue of 30, a count of 65 after 70, an
\* initial stock of 50 at 13.00, and a type the configuration does not have.
NewTransaction(key, type, status, date) ==
  [ id |-> 0, deleted |-> FALSE,
    item_code |-> key.itemCode, warehouse |-> key.warehouse, location |-> key.location,
    transaction_type |-> type, status |-> status, transaction_date |-> date,
    quantity |-> IF type = "nyuko" THEN 100
                 ELSE IF type = "shukko" THEN 30
                 ELSE IF type = "shoki-zaiko" THEN 50
                 ELSE IF type = "tanaoroshi-chosei" THEN 0 ELSE 7,
    unit_cost |-> IF type = "nyuko" THEN 1000
                  ELSE IF type = "shoki-zaiko" THEN 1300 ELSE 0,
    physical_count |-> IF type = "tanaoroshi-chosei" THEN 65 ELSE 0,
    before_qty |-> IF type = "tanaoroshi-chosei" THEN 70 ELSE 0,
    processed_flag |-> {} ]

TypeValues == {"nyuko", "shukko", "tanaoroshi-chosei", "shoki-zaiko", "henpin"}
StatusValues == {"yotei", "kakutei", "torikeshi"}

\* The transactions a user enters in the behaviours explored: confirmed ones of
\* every type, dated in the past and today, planned ones in the future, a
\* cancelled one, one at a second location and one without location.
TxPool ==
  { NewTransaction(K1, ty, "kakutei", d) :
      ty \in {"nyuko", "shukko"}, d \in {Today - MaxDay, Today} }
  \cup { NewTransaction(K1, ty, "kakutei", Today) :
            ty \in {"tanaoroshi-chosei", "shoki-zaiko", "henpin"} }
  \cup { NewTransaction(K1, ty, "yotei", Today + MaxDay) : ty \in {"nyuko", "shukko"} }
  \cup { NewTransaction(K1, "nyuko", "torikeshi", Today),
         NewTransaction(K2, "nyuko", "kakutei", Today),
         NewTransaction(KNoLocation, "nyuko", "kakutei", Today) }

NoRun ==
  [ n |-> 0, key |-> <<>>, currentQty |-> 0, transactions |-> <<>>,
    summaryData |-> <<>>, stockout |-> <<>>, repeat |-> FALSE ]

NoBatch == [ n |-> 0, found |-> <<>>, processedCount |-> 0 ]

Init ==
  /\ txStore = <<>>
  /\ balStore = <<>>
  /\ projStore = <<>>
  /\ pending = {}
  /\ lastRun = NoRun
  /\ lastOp = [op |-> "none", id |-> 0]
  /\ seen = {}
  /\ nEvents = 0
  /\ sess = <<>>
  /\ call = <<>>
  /\ lastBatch = NoBatch

(***************************************************************************)
(* Events of the transaction app and their handlers, one at a time         *)
(***************************************************************************)
\* The user saves a new transaction: app.record.create.submit.success follows.
CreateTx(t) ==
  /\ pending = {}
  /\ Len(txStore) < MaxTx
  /\ nEvents < MaxEvents
  /\ txStore' = Append(txStore, [t EXCEPT !.id = Len(txStore) + 1])
  /\ pending' = {"balance", "projection"}
  /\ lastOp' = [op |-> "create", id |-> Len(txStore) + 1]
  /\ seen' = seen \cup {"create"}
  /\ nEvents' = nEvents + 1
  /\ UNCHANGED <<balStore, projStore, lastRun, sess, call, lastBatch>>

\* The user saves an edit of a transaction (here: of its status, possibly to
\* the status it has): app.record.edit.submit.success follows.
EditTx(i, status) ==
  /\ pending = {}
  /\ nEvents < MaxEvents
  /\ i \in DOMAIN txStore
  /\ ~txStore[i].deleted
  /\ txStore' = [txStore EXCEPT ![i].status = status]
  /\ pending' = {"balance", "projection"}
  /\ lastOp' = [op |-> "edit", id |-> i]
  /\ seen' = seen \cup {"edit"}
  /\ nEvents' = nEvents + 1
  /\ UNCHANGED <<balStore, projStore, lastRun, sess, call, lastBatch>>

\* The user deletes a transaction: app.record.detail.delete.submit starts a
\* timer that refreshes the projection after the deletion.
DeleteTx(i) ==
  /\ pending = {}
  /\ nEvents < MaxEvents
  /\ i \in DOMAIN txStore
  /\ ~txStore[i].deleted
  /\ txStore' = [txStore EXCEPT ![i].deleted = TRUE]
  /\ pending' = {"projection"}
  /\ lastOp' = [op |-> "delete", id |-> i]
  /\ seen' = seen \cup {"delete"}
  /\ nEvents' = nEvents + 1
  /\ UNCHANGED <<balStore, projStore, lastRun, sess, call, lastBatch>>

\* The submit.success handler of the balance script (create and edit).
BalanceHandler ==
  /\ "balance" \in pending
  /\ LET record == txStore[lastOp.id]
         status == getFieldValue(record, TRANSACTION_FIELDS.STATUS)
     IN  balStore' = IF status = STATUSES.CONFIRMED
                     THEN updateInventoryBalance(balStore, record)
                     ELSE balStore
  /\ pending' = pending \ {"balance"}
  /\ UNCHANGED <<txStore, projStore, lastRun, lastOp, seen, nEvents, sess, call, lastBatch>>

\* What a run of updateInventoryProjection leaves in lastRun.
RunRecord(key, run) ==
  [ n |-> lastRun.n + 1, key |-> key, currentQty |-> run.currentQty,
    transactions |-> run.transactions, summaryData |-> run.summaryData,
    stockout |-> run.stockout,
    repeat |-> /\ lastRun.key = key
               /\ lastRun.currentQty = run.currentQty
               /\ lastRun.transactions = run.transactions ]

\* The handler of the projection script (create, edit and the timer of delete).
ProjectionHandler ==
  /\ "projection" \in pending
  /\ LET affected == getAffectedItems(txStore[lastOp.id])
     IN  IF affected = <<>>
         THEN UNCHANGED <<projStore, lastRun>>
         ELSE LET run == updateInventoryProjection(txStore, balStore, projStore,
                           affected[1].itemCode, affected[1].warehouse,
                           affected[1].location)
              IN  /\ projStore' = run.store
                  /\ lastRun' = RunRecord(affected[1], run)
  /\ pending' = pending \ {"projection"}
  /\ UNCHANGED <<txStore, balStore, lastOp, seen, nEvents, sess, call, lastBatch>>

Next ==
  \/ \E t \in TxPool : CreateTx(t)
  \/ \E i \in 1..MaxTx, status \in StatusValues : EditTx(i, status)
  \/ \E i \in 1..MaxTx : DeleteTx(i)
  \/ BalanceHandler
  \/ ProjectionHandler

Spec == Init /\ [][Next]_vars

(***************************************************************************)
(* Records that arrive without an event, and the batch button              *)
(***************************************************************************)
MaxBatch == 2    \* runs of the batch in one behaviour

\* The transactions of the behaviours with the batch: confirmed receipts and
\* issues of one key, dated today or before, a planned receipt and a cancelled
\* issue.
BatchPool ==
  { NewTransaction(K1, ty, "kakutei", d) :
      ty \in {"nyuko", "shukko"}, d \in {Today - MaxDay, Today} }
  \cup { NewTransaction(K1, "nyuko", "yotei", Today + MaxDay),
         NewTransaction(K1, "shukko", "torikeshi", Today) }

\* A record is added to app 760 through the REST API or a file import: no
\* handler of the scripts runs.
ImportTx(t) ==
  /\ pending = {}
  /\ Len(txStore) < MaxTx
  /\ txStore' = Append(txStore, [t EXCEPT !.id = Len(txStore) + 1])
  /\ lastOp' = [op |-> "import", id |-> Len(txStore) + 1]
  /\ seen' = seen \cup {"import"}
  /\ UNCHANGED <<balStore, projStore, pending, lastRun, nEvents, sess, call, lastBatch>>

\* The user presses the batch button and confirms: batchUpdateInventory runs
\* to its end.
BatchRun ==
  /\ pending = {}
  /\ lastBatch.n < MaxBatch
  /\ \E run \in {batchUpdateInventory(txStore, balStore, projStore)} :
         /\ txStore' = run.tx
         /\ balStore' = run.bal
         /\ projStore' = run.proj
         /\ lastBatch' = [ n |-> lastBatch.n + 1, found |-> run.found,
                           processedCount |-> run.processedCount ]
  /\ lastOp' = [op |-> "batch", id |-> 0]
  /\ seen' = seen \cup {"batch"}
  /\ UNCHANGED <<pending, lastRun, nEvents, sess, call>>

NextBatch ==
  \/ \E t \in BatchPool : ImportTx(t)
  \/ \E t \in BatchPool : CreateTx(t)
  \/ BalanceHandler
  \/ ProjectionHandler
  \/ BatchRun

SpecBatch == Init /\ [][NextBatch]_vars

(***************************************************************************)
(* Handlers of several browser sessions, interleaved at their awaits       *)
(***************************************************************************)
MaxSessions == 2   \* browser sessions (users) working on app 760

Sessions == 1..MaxSessions

\* The confirmed transactions the sessions save.
SessionPool ==
  { NewTransaction(K1, ty, "kakutei", Today) : ty \in {"nyuko", "shukko"} }
  \cup { NewTransaction(K2, "nyuko", "kakutei", Today) }

IdleSession == [ pc |-> "idle", record |-> <<>>, balanceRecord |-> <<>> ]

InitSessions ==
  /\ txStore = <<>>
  /\ balStore = <<>>
  /\ projStore = <<>>
  /\ pending = {}
  /\ lastRun = NoRun
  /\ lastOp = [op |-> "none", id |-> 0]
  /\ seen = {}
  /\ nEvents = 0
  /\ sess = [ s \in Sessions |-> IdleSession ]
  /\ call = <<>>
  /\ lastBatch = NoBatch

\* The user of session s saves a new confirmed transaction: the handler of
\* app.record.create.submit.success calls updateInventoryBalance, which runs up
\* to its first await.
SessionSubmit(s, t) ==
  /\ sess[s].pc = "idle"
  /\ Len(txStore) < MaxTx
  /\ LET record == [t EXCEPT !.id = Len(txStore) + 1]
     IN  /\ txStore' = Append(txStore, record)
         /\ sess' = [sess EXCEPT ![s] = [ pc |-> "get", record |-> <<record>>,
                                          balanceRecord |-> <<>> ]]
  /\ UNCHANGED <<balStore, projStore, pending, lastRun, lastOp, seen, nEvents, call,
                 lastBatch>>

\* await getOrCreateBalanceRecord(...) of session s completes.
SessionGetBalance(s) ==
  /\ sess[s].pc = "get"
  /\ LET key == getAffectedItems(sess[s].record[1])[1]
         got == getOrCreateBalanceRecord(balStore, key.itemCode, key.warehouse,
                                         key.location)
     IN  /\ balStore' = got.store
         /\ sess' = [sess EXCEPT ![s].pc = "put", ![s].balanceRecord = <<got.record>>]
  /\ UNCHANGED <<txStore, projStore, pending, lastRun, lastOp, seen, nEvents, call,
                 lastBatch>>

\* await kintone.api(PUT) of session s completes and the handler returns.
SessionPutBalance(s) ==
  /\ sess[s].pc = "put"
  /\ balStore' = BalanceWrite(balStore, sess[s].balanceRecord[1], sess[s].record[1])
  /\ sess' = [sess EXCEPT ![s] = IdleSession]
  /\ UNCHANGED <<txStore, projStore, pending, lastRun, lastOp, seen, nEvents, call,
                 lastBatch>>

NextSessions ==
  \/ \E s \in Sessions, t \in SessionPool : SessionSubmit(s, t)
  \/ \E s \in Sessions : SessionGetBalance(s)
  \/ \E s \in Sessions : SessionPutBalance(s)

SpecSessions == InitSessions /\ [][NextSessions]_vars

(***************************************************************************)
(* Calls of the costing function                                           *)
(***************************************************************************)
MaxSmall == 3    \* small quantities are -MaxSmall .. MaxSmall, small costs 0 .. MaxSmall

\* Quantities: small ones of both signs, and the 50 and 100 of the examples.
CostingQtys == ((0 - MaxSmall) .. MaxSmall) \cup {50, 100}

\* Unit costs in hundredths: small ones, and 10.00 and 13.00.
CostingCosts == (0 .. MaxSmall) \cup {1000, 1300}

InitCost ==
  /\ txStore = <<>>
  /\ balStore = <<>>
  /\ projStore = <<>>
  /\ pending = {}
  /\ lastRun = NoRun
  /\ lastOp = [op |-> "none", id |-> 0]
  /\ seen = {}
  /\ nEvents = 0
  /\ sess = <<>>
  /\ lastBatch = NoBatch
  /\ call \in [ currentQty : CostingQtys, currentCost : CostingCosts,
               addQty : CostingQtys, addCost : CostingCosts,
               returned : {FALSE}, result : {0} ]

\* calculateMovingAverageCost is called with the arguments drawn and returns.
CallCosting ==
  /\ ~call.returned
  /\ call' = [call EXCEPT
                !.returned = TRUE,
                !.result = calculateMovingAverageCost(call.currentQty, call.currentCost,
                                                      call.addQty, call.addCost)]
  /\ UNCHANGED <<txStore, balStore, projStore, pending, lastRun, lastOp, seen, nEvents,
                 sess, lastBatch>>

NextCost == CallCosting

SpecCost == InitCost /\ [][NextCost]_vars

(***************************************************************************)
(* One confirmed transaction applied to one balance                        *)
(***************************************************************************)
MaxCount == 2    \* small quantities and counts of the applied transaction: 0 .. MaxCount

\* The balances a transaction is applied to: none yet, or a record of K1.
ApplyQtys == {-5, 0, 5, 70, 100}
ApplyCosts == {0, 1000}

BalanceOf(key, qty, cost) ==
  [ id |-> 1, deleted |-> FALSE,
    balance_id |-> BalanceId(key.itemCode, key.warehouse, key.location),
    item_code |-> key.itemCode, warehouse |-> key.warehouse, location |-> key.location,
    current_qty |-> qty, safety_stock |-> ITEM_MASTER.A001.safety_stock,
    average_cost |-> cost, inventory_value |-> 0,
    alert_flag |-> "", last_transaction_date |-> Today - MaxDay ]

ApplyBalances ==
  {<<>>} \cup { <<BalanceOf(K1, q, c)>> : q \in ApplyQtys, c \in ApplyCosts }

\* A record whose date field is empty.
WithoutDate(t) == [ f \in DOMAIN t \ {TRANSACTION_FIELDS.TRANSACTION_DATE} |-> t[f] ]

\* The confirmed transactions applied: every type, with and without a date.
DatedTransactions ==
  { [ NewTransaction(K1, ty, "kakutei", Today + MaxDay) EXCEPT
        !.id = 1, !.quantity = q, !.unit_cost = c, !.physical_count = pc ] :
      ty \in TypeValues,
      q \in (0 .. MaxCount) \cup {30}, c \in {0, 1300}, pc \in {0, MaxCount, 65} }

ApplyTransactions == DatedTransactions \cup { WithoutDate(t) : t \in DatedTransactions }

InitApply ==
  /\ txStore = <<>>
  /\ projStore = <<>>
  /\ pending = {}
  /\ lastRun = NoRun
  /\ lastOp = [op |-> "none", id |-> 0]
  /\ seen = {}
  /\ nEvents = 0
  /\ sess = <<>>
  /\ lastBatch = NoBatch
  /\ balStore \in ApplyBalances
  /\ \E t \in ApplyTransactions :
       call = [ record |-> t, applied |-> FALSE,
                qty |-> IF balStore = <<>> THEN 0 ELSE balStore[1].current_qty,
                cost |-> IF balStore = <<>> THEN 0 ELSE balStore[1].average_cost ]

\* The handler calls updateInventoryBalance for the confirmed record.
ApplyConfirmed ==
  /\ ~call.applied
  /\ balStore' = updateInventoryBalance(balStore, call.record)
  /\ call' = [call EXCEPT !.applied = TRUE]
  /\ UNCHANGED <<txStore, projStore, pending, lastRun, lastOp, seen, nEvents, sess,
                 lastBatch>>

NextApply == ApplyConfirmed

SpecApply == InitApply /\ [][NextApply]_vars

(***************************************************************************)
(* The handlers of one create event in apps that already hold records      *)
(***************************************************************************)
MaxStored == 2   \* transaction records in app 760 when the handlers run

\* The transactions app 760 holds: confirmed and planned receipts and issues of
\* K1 around today and at the ends of the window, a confirmed receipt dated
\* before the window and one of another key.
ReconcilePool ==
  { NewTransaction(K1, ty, "kakutei", d) :
      ty \in {"nyuko", "shukko"}, d \in {Today - MaxDay, Today, Today + MaxDay} }
  \cup { NewTransaction(K1, ty, "yotei", d) :
           ty \in {"nyuko", "shukko"}, d \in {Today - MaxDay, Today + MaxDay} }
  \cup { NewTransaction(K1, "shukko", "kakutei", Today - PAST_DAYS),
         NewTransaction(K1, "shukko", "yotei", Today + FUTURE_DAYS),
         NewTransaction(K1, "nyuko", "kakutei", Today - PAST_DAYS - 1),
         NewTransaction(K2, "nyuko", "kakutei", Today) }

\* App 760 after the create event: the record created is the last one.
ReconcileStores ==
  UNION { { [ i \in 1..n |-> [l[i] EXCEPT !.id = i] ] : l \in [ 1..n -> ReconcilePool ] } :
          n \in 1..MaxStored }

\* App 761: no record yet, or a record of K1 and one of K2.
ReconcileBalances ==
  {<<>>} \cup { << BalanceOf(K1, q, 1000), [BalanceOf(K2, 40, 1000) EXCEPT !.id = 2] >> :
                  q \in {30, 100} }

\* A record of app 762 as upsertSummaryRecords stored it on an earlier day.
StoredEntry(id, key, date, qty) ==
  WriteFields(BlankProjectionRecord(id),
              RecordData(key.itemCode, key.warehouse, key.location,
                         UpsertSummaryId(key.itemCode, key.warehouse, key.location, date),
                         FutureEntry(date, qty, qty, EmptyDaily)))

\* App 762: empty, or with a record of K1 dated before the window, a record of
\* K2 and a record of K1 inside the window.
ReconcileSummaries ==
  { <<>>,
    << StoredEntry(1, K1, Today - PAST_DAYS - 1, 40), StoredEntry(2, K2, Today, 40),
       StoredEntry(3, K1, Today, 40) >> }

InitReconcile ==
  /\ txStore \in ReconcileStores
  /\ balStore \in ReconcileBalances
  /\ projStore \in ReconcileSummaries
  /\ pending = {"balance", "projection"}
  /\ lastRun = NoRun
  /\ lastOp = [op |-> "create", id |-> Len(txStore)]
  /\ seen = {"create"}
  /\ nEvents = 1
  /\ sess = <<>>
  /\ call = <<>>
  /\ lastBatch = NoBatch

NextReconcile ==
  \/ BalanceHandler
  \/ ProjectionHandler

SpecReconcile == InitReconcile /\ [][NextReconcile]_vars

(***************************************************************************)
(* The batch button when the API rejects writes                            *)
(***************************************************************************)
MaxImported == 3   \* unprocessed records in app 760 when the button is pressed

\* The unprocessed records: confirmed and planned ones of two keys and one
\* without location.
FaultPool ==
  { NewTransaction(k, ty, "kakutei", Today) : k \in LocationKeys, ty \in {"nyuko", "shukko"} }
  \cup { NewTransaction(K1, "nyuko", "yotei", Today + MaxDay),
         NewTransaction(KNoLocation, "nyuko", "kakutei", Today) }

FaultStores ==
  UNION { { [ i \in 1..n |-> [l[i] EXCEPT !.id = i] ] : l \in [ 1..n -> FaultPool ] } :
          n \in 0..MaxImported }

GroupKey(key) == <<key.itemCode, key.warehouse, key.location>>

\* The faults of a run: for each key none, the balance write or the flag write.
FaultChoices == [ { GroupKey(k) : k \in LocationKeys } -> {"none", "balance", "mark"} ]

InitFaulty ==
  /\ txStore \in FaultStores
  /\ balStore = <<>>
  /\ projStore = <<>>
  /\ pending = {}
  /\ lastRun = NoRun
  /\ lastOp = [op |-> "import", id |-> Len(txStore)]
  /\ seen = {"import"}
  /\ nEvents = 0
  /\ sess = <<>>
  /\ call = <<>>
  /\ lastBatch = NoBatch

\* The user presses the batch button and confirms; during the run the API
\* rejects the writes in faults.
BatchRunWithFaults(faults) ==
  /\ pending = {}
  /\ lastBatch.n = 0
  /\ \E run \in {BatchWithFaults(txStore, balStore, projStore, faults)} :
         /\ txStore' = run.tx
         /\ balStore' = run.bal
         /\ projStore' = run.proj
         /\ lastBatch' = [ n |-> lastBatch.n + 1, found |-> run.found,
                           processedCount |-> run.processedCount,
                           faults |-> faults, groups |-> run.groups,
                           attempts |-> run.attempts, result |-> run.result ]
  /\ lastOp' = [op |-> "batch", id |-> 0]
  /\ seen' = seen \cup {"batch"}
  /\ UNCHANGED <<pending, lastRun, nEvents, sess, call>>

NextFaulty == \E faults \in FaultChoices : BatchRunWithFaults(faults)

SpecFaulty == InitFaulty /\ [][NextFaulty]_vars

(***************************************************************************)
(* The batch button when the API rejects writes of summary records         *)
(***************************************************************************)
\* The faults of a run: for each key none, the balance write or the writes of
\* the summary records.
SummaryFaultChoices ==
  [ { GroupKey(k) : k \in LocationKeys } -> {"none", "balance", "summary"} ]

NextSummaryFault == \E faults \in SummaryFaultChoices : BatchRunWithFaults(faults)

SpecSummaryFault == InitFaulty /\ [][NextSummaryFault]_vars

(***************************************************************************)
(* One call of an entry point while the API rejects a request              *)
(***************************************************************************)
MaxEntry == 2    \* transaction records in app 760 when the entry point is called

\* The requests of a call that the API rejects.
EntryFaults == {"none", "get", "put"}

\* The records of app 760: confirmed ones of K1 of a known and of an unknown
\* type, a planned one and one without location.
EntryPool ==
  { NewTransaction(K1, ty, "kakutei", Today) : ty \in {"nyuko", "shukko", "henpin"} }
  \cup { NewTransaction(K1, "nyuko", "yotei", Today + MaxDay),
         NewTransaction(KNoLocation, "nyuko", "kakutei", Today) }

EntryStores ==
  UNION { { [ i \in 1..n |-> [l[i] EXCEPT !.id = i] ] : l \in [ 1..n -> EntryPool ] } :
          n \in 1..MaxEntry }

\* A balance record as the batch left it on the day before.
StoredBalance(key, qty, cost) ==
  [ BalanceOf(key, qty, cost) EXCEPT
      !.alert_flag = getAlertFlag(qty, ITEM_MASTER.A001.safety_stock),
      !.inventory_value = MathRound(qty * cost, 1) ]

\* The faults of a run of the batch: for each key none, the balance lookup,
\* the balance write or the flag write.
EntryFaultChoices ==
  [ { GroupKey(k) : k \in LocationKeys } -> {"none", "lookup", "balance", "mark"} ]

NoCall ==
  [ fn |-> "none", fault |-> "none", faults |-> NoFaults, outcome |-> "none",
    value |-> <<>> ]

\* The call that was made, the requests the API rejected during it and how it
\* ended.
CallRecord(fn, fault, faults, end) ==
  [ fn |-> fn, fault |-> fault, faults |-> faults, outcome |-> end.outcome,
    value |-> end.value ]

InitEntry ==
  /\ txStore \in EntryStores
  /\ balStore \in { <<>>, <<StoredBalance(K1, 5, 1000)>> }
  /\ projStore = <<>>
  /\ pending = {}
  /\ lastRun = NoRun
  /\ lastOp = [op |-> "create", id |-> Len(txStore)]
  /\ seen = {"create"}
  /\ nEvents = 1
  /\ sess = <<>>
  /\ call = NoCall
  /\ lastBatch = NoBatch

\* The handler of the balance script calls updateInventoryBalance for the
\* confirmed record that was saved last.
EntryBalance(fault) ==
  /\ call.fn = "none"
  /\ getFieldValue(txStore[lastOp.id], TRANSACTION_FIELDS.STATUS) = STATUSES.CONFIRMED
  /\ \E run \in {BalanceCall(balStore, txStore[lastOp.id], fault)} :
         /\ balStore' = run.store
         /\ call' = CallRecord("updateInventoryBalance", fault, NoFaults, run.end)
  /\ UNCHANGED <<txStore, projStore, pending, lastRun, lastOp, seen, nEvents, sess,
                 lastBatch>>

\* The handler of the projection script calls updateInventoryProjection for
\* the key of the record that was saved last; it returns at once when
\* getAffectedItems finds no key.
EntryProjection(fault) ==
  /\ call.fn = "none"
  /\ \E affected \in {getAffectedItems(txStore[lastOp.id])} :
       IF affected = <<>>
       THEN /\ projStore' = projStore
            /\ call' = CallRecord("getAffectedItems", "none", NoFaults, Returned(<<>>))
       ELSE \E run \in {ProjectionCall(txStore, balStore, projStore,
                                       affected[1].itemCode, affected[1].warehouse,
                                       affected[1].location, fault)} :
              /\ projStore' = run.store
              /\ call' = CallRecord("updateInventoryProjection", fault, NoFaults, run.end)
  /\ UNCHANGED <<txStore, balStore, pending, lastRun, lastOp, seen, nEvents, sess,
                 lastBatch>>

\* The batch button calls batchUpdateInventory.
EntryBatch(fault, faults) ==
  /\ call.fn = "none"
  /\ \E run \in {BatchCall(txStore, balStore, projStore, fault, faults)} :
         /\ txStore' = run.tx
         /\ balStore' = run.bal
         /\ projStore' = run.proj
         /\ call' = CallRecord("batchUpdateInventory", fault, faults, run.end)
  /\ UNCHANGED <<pending, lastRun, lastOp, seen, nEvents, sess, lastBatch>>

NextEntry ==
  \/ \E fault \in EntryFaults : EntryBalance(fault)
  \/ \E fault \in EntryFaults : EntryProjection(fault)
  \/ \E fault \in {"none", "get"}, faults \in EntryFaultChoices : EntryBatch(fault, faults)

SpecEntry == InitEntry /\ [][NextEntry]_vars

(***************************************************************************)
(* The batch button pressed again after a run in which writes failed       *)
(***************************************************************************)
\* The user presses the batch button once more; during each run the API
\* rejects the writes in faults.
BatchRerun(faults) ==
  /\ pending = {}
  /\ lastBatch.n < MaxBatch
  /\ \E run \in {BatchWithFaults(txStore, balStore, projStore, faults)} :
         /\ txStore' = run.tx
         /\ balStore' = run.bal
         /\ projStore' = run.proj
         /\ lastBatch' = [ n |-> lastBatch.n + 1, found |-> run.found,
                           processedCount |-> run.processedCount,
                           faults |-> faults, groups |-> run.groups,
                           attempts |-> run.attempts, result |-> run.result ]
  /\ lastOp' = [op |-> "batch", id |-> 0]
  /\ seen' = seen \cup {"batch"}
  /\ UNCHANGED <<pending, lastRun, nEvents, sess, call>>

NextRerun == \E faults \in FaultChoices : BatchRerun(faults)

SpecRerun == InitFaulty /\ [][NextRerun]_vars

(***************************************************************************)
(* Calls of the aggregator                                                 *)
(***************************************************************************)
MaxList == 3     \* transactions in the list handed to the aggregator

\* A count: the quantity before and the quantity counted.
Adjustment(status, date, beforeQty, physicalCount) ==
  [ NewTransaction(K1, "tanaoroshi-chosei", status, date) EXCEPT
      !.before_qty = beforeQty, !.physical_count = physicalCount ]

\* The transactions of one location key handed to the aggregator: receipts,
\* issues and initial stocks of every status on two dates, counts below, above
\* and at the quantity before, and a type the configuration does not have.
AggregatePool ==
  { NewTransaction(K1, ty, st, d) :
      ty \in {"nyuko", "shukko", "shoki-zaiko"}, st \in StatusValues,
      d \in {Today - MaxDay, Today} }
  \cup { Adjustment(st, Today, 70, 65) : st \in StatusValues }
  \cup { Adjustment("kakutei", Today, 65, 70), Adjustment("kakutei", Today, 70, 70),
         NewTransaction(K1, "henpin", "kakutei", Today) }

AggregateLists ==
  UNION { [ 1..n -> AggregatePool ] : n \in 0..MaxList }

\* The orders a list can be handed over in.
Orders(n) == { p \in [ 1..n -> 1..n ] : \A i, j \in 1..n : p[i] = p[j] => i = j }

InitAggregate ==
  /\ txStore = <<>>
  /\ balStore = <<>>
  /\ projStore = <<>>
  /\ pending = {}
  /\ lastRun = NoRun
  /\ lastOp = [op |-> "none", id |-> 0]
  /\ seen = {}
  /\ nEvents = 0
  /\ sess = <<>>
  /\ lastBatch = NoBatch
  /\ \E l \in AggregateLists :
       call = [ transactions |-> l, returned |-> FALSE,
                result |-> EmptyObject, reordered |-> EmptyObject ]

\* aggregateTransactionsByDate is called with the list, and with the same
\* transactions in the order p.
CallAggregate(p) ==
  /\ ~call.returned
  /\ call' = [call EXCEPT
                !.returned = TRUE,
                !.result = aggregateTransactionsByDate(call.transactions, EmptyObject),
                !.reordered =
                   aggregateTransactionsByDate(
                     [ i \in DOMAIN call.transactions |-> call.transactions[p[i]] ],
                     EmptyObject)]
  /\ UNCHANGED <<txStore, balStore, projStore, pending, lastRun, lastOp, seen, nEvents,
                 sess, lastBatch>>

NextAggregate == \E p \in Orders(Len(call.transactions)) : CallAggregate(p)

SpecAggregate == InitAggregate /\ [][NextAggregate]_vars

(***************************************************************************)
(* One sequence of confirmed transactions applied along both balance paths *)
(***************************************************************************)
MaxSeq == 2      \* confirmed transactions of the sequence: 1 .. MaxSeq

\* The confirmed transactions of key K1 the sequences are made of: receipts and
\* issues of 30 and of 100, receipts at 10.00 and at 13.00, a count of 65 and
\* an initial stock of 50 at 13.00, dated yesterday or today.
PathPool ==
  { [ NewTransaction(K1, "nyuko", "kakutei", d) EXCEPT !.quantity = q, !.unit_cost = c ] :
      q \in {30, 100}, c \in {1000, 1300}, d \in {Today - MaxDay, Today} }
  \cup { [ NewTransaction(K1, "shukko", "kakutei", d) EXCEPT !.quantity = q ] :
           q \in {30, 100}, d \in {Today - MaxDay, Today} }
  \cup { NewTransaction(K1, ty, "kakutei", d) :
           ty \in {"tanaoroshi-chosei", "shoki-zaiko"}, d \in {Today - MaxDay, Today} }

\* The sequences in date order, as records of app 760.
PathSequences ==
  UNION { { [ i \in 1..n |-> [ s[i] EXCEPT !.id = i ] ] :
              s \in { f \in [1..n -> PathPool] :
                        \A i \in 1..(n - 1) :
                          f[i].transaction_date <= f[i + 1].transaction_date } } :
          n \in 1..MaxSeq }

\* The balance both paths start from: none, or a record of K1.
PathBalances ==
  {<<>>} \cup { <<BalanceOf(K1, 0, 0)>>, <<BalanceOf(K1, 70, 1000)>>,
                <<BalanceOf(K1, -5, 1000)>> }

\* app 760 holds the sequence and app 761 the starting balance; call holds app
\* 761 as each path leaves it: event after the handlers of the first `applied'
\* records, batch after the group (once grouped).
InitPaths ==
  /\ txStore \in PathSequences
  /\ balStore \in PathBalances
  /\ projStore = <<>>
  /\ pending = {}
  /\ lastRun = NoRun
  /\ lastOp = [op |-> "none", id |-> 0]
  /\ seen = {}
  /\ nEvents = 0
  /\ sess = <<>>
  /\ lastBatch = NoBatch
  /\ call = [ event |-> balStore, applied |-> 0, batch |-> balStore, grouped |-> FALSE ]

\* The handler of the next record of the sequence calls updateInventoryBalance.
ApplyOneByOne ==
  /\ call.applied < Len(txStore)
  /\ call' = [call EXCEPT
                !.event = updateInventoryBalance(call.event, txStore[call.applied + 1]),
                !.applied = call.applied + 1]
  /\ UNCHANGED <<txStore, balStore, projStore, pending, lastRun, lastOp, seen, nEvents,
                 sess, lastBatch>>

\* The batch calls updateBalanceForGroup with the sequence as one group.
ApplyAsGroup ==
  /\ ~call.grouped
  /\ call' = [call EXCEPT
                !.batch = updateBalanceForGroup(balStore, txStore),
                !.grouped = TRUE]
  /\ UNCHANGED <<txStore, balStore, projStore, pending, lastRun, lastOp, seen, nEvents,
                 sess, lastBatch>>

NextPaths ==
  \/ ApplyOneByOne
  \/ ApplyAsGroup

SpecPaths == InitPaths /\ [][NextPaths]_vars

(***************************************************************************)
(* Calls of the two alert functions                                        *)
(***************************************************************************)
MaxAlertQty == 12   \* quantities classified: -3 .. MaxAlertQty

AlertQtys == (0 - 3) .. MaxAlertQty
AlertStocks == {0, 5, 10}

InitAlert ==
  /\ txStore = <<>>
  /\ balStore = <<>>
  /\ projStore = <<>>
  /\ pending = {}
  /\ lastRun = NoRun
  /\ lastOp = [op |-> "none", id |-> 0]
  /\ seen = {}
  /\ nEvents = 0
  /\ sess = <<>>
  /\ lastBatch = NoBatch
  /\ call \in [ qty : AlertQtys, safetyStock : AlertStocks,
               returned : {{}}, event : {""}, batch : {""} ]

\* updateInventoryBalance classifies the new quantity with determineAlertFlag.
CallDetermineAlertFlag ==
  /\ "event" \notin call.returned
  /\ call' = [call EXCEPT !.returned = @ \cup {"event"},
                          !.event = determineAlertFlag(call.qty, call.safetyStock)]
  /\ UNCHANGED <<txStore, balStore, projStore, pending, lastRun, lastOp, seen, nEvents,
                 sess, lastBatch>>

\* updateBalanceForGroup classifies the new quantity with getAlertFlag.
CallGetAlertFlag ==
  /\ "batch" \notin call.returned
  /\ call' = [call EXCEPT !.returned = @ \cup {"batch"},
                          !.batch = getAlertFlag(call.qty, call.safetyStock)]
  /\ UNCHANGED <<txStore, balStore, projStore, pending, lastRun, lastOp, seen, nEvents,
                 sess, lastBatch>>

NextAlert ==
  \/ CallDetermineAlertFlag
  \/ CallGetAlertFlag

SpecAlert == InitAlert /\ [][NextAlert]_vars

(***************************************************************************)
(* The batch button pressed again and again, with records without a key    *)
(***************************************************************************)
MaxKeyed == 2    \* unprocessed records with a location key: 1 .. MaxKeyed

\* The imported records without location, all dated before today; as many as
\* the fetch limit of a run, one less, one, or none.
KeylessCounts == {0, 1, MAX_RECORDS - 1, MAX_RECORDS}
KeylessRecord == NewTransaction(KNoLocation, "nyuko", "kakutei", Today - MaxDay)

\* The imported records with a location key, dated today or later.
KeyedPool ==
  { NewTransaction(K1, "nyuko", "kakutei", Today),
    NewTransaction(K2, "nyuko", "kakutei", Today),
    NewTransaction(K1, "shukko", "kakutei", Today),
    NewTransaction(K1, "nyuko", "yotei", Today + MaxDay) }

ProgressStores ==
  UNION { { [ i \in 1..(k + n) |->
                IF i <= k THEN [ KeylessRecord EXCEPT !.id = i ]
                ELSE [ l[i - k] EXCEPT !.id = i ] ] :
              l \in [ 1..n -> KeyedPool ] } :
          k \in KeylessCounts, n \in 1..MaxKeyed }

InitProgress ==
  /\ txStore \in ProgressStores
  /\ balStore = <<>>
  /\ projStore = <<>>
  /\ pending = {}
  /\ lastRun = NoRun
  /\ lastOp = [op |-> "none", id |-> 0]
  /\ seen = {"import"}
  /\ nEvents = 0
  /\ sess = <<>>
  /\ call = <<>>
  /\ lastBatch = NoBatch

\* The user presses the batch button and confirms; lastOp.id numbers the run
\* within a round of MaxBatch runs.
ButtonPressed ==
  /\ pending = {}
  /\ lastOp' = [op |-> "batch", id |-> (lastOp.id % MaxBatch) + 1]

\* The button is pressed and batchUpdateInventory runs to its end; the API
\* accepts every request.
BatchPressed ==
  /\ ButtonPressed
  /\ \E run \in {batchUpdateInventory(txStore, balStore, projStore)} :
         /\ txStore' = run.tx
         /\ balStore' = run.bal
         /\ projStore' = run.proj
         /\ lastBatch' = [ n |-> lastOp'.id, found |-> run.found,
                           processedCount |-> run.processedCount ]
  /\ seen' = seen \cup {"batch"}
  /\ UNCHANGED <<pending, lastRun, nEvents, sess, call>>

NextProgress == BatchPressed

\* The batch is run repeatedly: the button is pressed again and again.
SpecProgress == InitProgress /\ [][NextProgress]_vars /\ WF_lastOp(ButtonPressed)

(***************************************************************************)
(* Receipts against purchase orders, submitted one at a time               *)
(***************************************************************************)
MaxReceipts == 2   \* transaction records in app 760
MaxSubmits == 3    \* submits (create, edit) of one behaviour

\* App 748: no purchase order, or the order PO-001 with one row: 100 or 0 of
\* item A001, or 100 of another item.
PurchaseOrder(itemCode, quantity) ==
  [ po_number |-> "PO-001",
    po_items |-> << [ item_code |-> itemCode, quantity |-> quantity ] >> ]

PurchaseOrders ==
  { <<>>, <<PurchaseOrder("A001", 100)>>, <<PurchaseOrder("A001", 0)>>,
    <<PurchaseOrder("B002", 100)>> }

ReceiptQtys == {40, 60, 100}

\* The records a user submits: receipts of 40, 60 and 100 against PO-001,
\* confirmed or planned, a confirmed receipt without PO number, one against an
\* unknown PO number and a confirmed issue that names PO-001.
ReceivingPool ==
  { [ NewTransaction(K1, "nyuko", status, Today) EXCEPT !.quantity = q ]
      @@ [ po_number |-> "PO-001" ] :
      status \in {"kakutei", "yotei"}, q \in ReceiptQtys }
  \cup { NewTransaction(K1, "nyuko", "kakutei", Today) @@ [ po_number |-> "" ],
         NewTransaction(K1, "nyuko", "kakutei", Today) @@ [ po_number |-> "PO-404" ],
         NewTransaction(K1, "shukko", "kakutei", Today) @@ [ po_number |-> "PO-001" ] }

NoSubmit == [ op |-> "none", id |-> 0, record |-> <<>>, stored |-> <<>>, error |-> <<>> ]

\* call.po holds app 748, call.submit the last submit: the record as submitted,
\* app 760 as the handler found it and the error the handler set.
InitReceiving ==
  /\ txStore = <<>>
  /\ balStore = <<>>
  /\ projStore = <<>>
  /\ pending = {}
  /\ lastRun = NoRun
  /\ lastOp = [op |-> "none", id |-> 0]
  /\ seen = {}
  /\ nEvents = 0
  /\ sess = <<>>
  /\ lastBatch = NoBatch
  /\ \E po \in PurchaseOrders : call = [ po |-> po, submit |-> NoSubmit ]

\* The user saves a new record: the submit handler validates it; the record is
\* stored unless the handler set event.error.  (The handlers of submit.success
\* that follow a save do not write app 760.)
SubmitCreate(t) ==
  /\ Len(txStore) < MaxReceipts
  /\ nEvents < MaxSubmits
  /\ \E error \in {ReceivingError(call.po, txStore, t)} :
       /\ txStore' = IF error = <<>>
                     THEN Append(txStore, [t EXCEPT !.id = Len(txStore) + 1])
                     ELSE txStore
       /\ call' = [call EXCEPT !.submit =
                     [ op |-> "create", id |-> Len(txStore) + 1, record |-> t,
                       stored |-> txStore, error |-> error ]]
  /\ lastOp' = [op |-> "create", id |-> Len(txStore) + 1]
  /\ seen' = seen \cup {"create"}
  /\ nEvents' = nEvents + 1
  /\ UNCHANGED <<balStore, projStore, pending, lastRun, sess, lastBatch>>

\* The user saves an edit of a stored record (status and quantity as entered):
\* the submit handler validates the edited record; the edit is stored unless
\* the handler set event.error.
SubmitEdit(i, status, quantity) ==
  /\ i \in DOMAIN txStore
  /\ nEvents < MaxSubmits
  /\ \E edited \in {[txStore[i] EXCEPT !.status = status, !.quantity = quantity]} :
     \E error \in {ReceivingError(call.po, txStore, edited)} :
       /\ txStore' = IF error = <<>> THEN [txStore EXCEPT ![i] = edited] ELSE txStore
       /\ call' = [call EXCEPT !.submit =
                     [ op |-> "edit", id |-> i, record |-> edited,
                       stored |-> txStore, error |-> error ]]
  /\ lastOp' = [op |-> "edit", id |-> i]
  /\ seen' = seen \cup {"edit"}
  /\ nEvents' = nEvents + 1
  /\ UNCHANGED <<balStore, projStore, pending, lastRun, sess, lastBatch>>

NextReceiving ==
  \/ \E t \in ReceivingPool : SubmitCreate(t)
  \/ \E i \in 1..MaxReceipts, status \in {"kakutei", "yotei"}, q \in ReceiptQtys :
       SubmitEdit(i, status, q)

SpecReceiving == InitReceiving /\ [][NextReceiving]_vars

(***************************************************************************)
(* Properties of the projection list and of the balance, event by event    *)
(***************************************************************************)
\* The entry of the last generated list for today.
TodayEntry == lastRun.summaryData[PAST_DAYS + 1]

\* C1 - chain continuity: in the list generated by a run of
\* updateInventoryProjection, every entry opens with the quantity the entry of
\* the day before ends with, over the whole window today-30 .. today+90.
ChainContinuity ==
  \A k \in 1..(Len(lastRun.summaryData) - 1) :
    lastRun.summaryData[k + 1].opening_qty = lastRun.summaryData[k].ending_qty

\* C2 - anchor fidelity: after a run of updateInventoryProjection the entry
\* generated for today ends with the current quantity read from the balance
\* record.
AnchorFidelity ==
  lastRun.n > 0 =>
    /\ TodayEntry.date = Today
    /\ TodayEntry.ending_qty = lastRun.currentQty

\* A run that read a balance other than 0 and found both a confirmed receipt
\* and a confirmed issue dated today.
AnchorWitness ==
  /\ lastRun.n > 0
  /\ lastRun.currentQty # 0
  /\ TodayEntry.received_qty > 0
  /\ TodayEntry.issued_qty > 0

\* C3 - ledger consistency: every generated entry, past or future, ends with
\* its opening quantity plus what was received minus what was issued.
LedgerConsistency ==
  \A k \in DOMAIN lastRun.summaryData :
    LET e == lastRun.summaryData[k]
    IN  e.ending_qty = e.opening_qty + e.received_qty - e.issued_qty

\* A generated list with an issue in the past and a receipt today.
LedgerWitness ==
  /\ lastRun.n > 0
  /\ \E k \in 1..PAST_DAYS : lastRun.summaryData[k].issued_qty > 0
  /\ TodayEntry.received_qty > 0

\* C4 - idempotence: a run of updateInventoryProjection for the key, the balance
\* and the transactions of the run before it leaves app 762 as that run left it.
Idempotence ==
  [][ (lastRun'.n = lastRun.n + 1 /\ lastRun'.repeat) => projStore' = projStore ]_vars

\* A second run over the same balance and the same (non-empty) transactions,
\* with the 121 records of the first run in the store.
IdempotenceWitness ==
  /\ lastRun.repeat
  /\ lastRun.transactions # <<>>
  /\ Len(projStore) = PAST_DAYS + 1 + FUTURE_DAYS

\* The transactions of a key that are confirmed, by date.
ConfirmedOf(key) ==
  OrderByDate(
    SelectSeq(StoredRecords(txStore), LAMBDA r :
      /\ r.item_code = key.itemCode /\ r.warehouse = key.warehouse
      /\ r.location = key.location /\ r.status = STATUSES.CONFIRMED),
    <<>>)

\* The quantity after the effect of each of the transactions, once, in order.
RECURSIVE ExpectedQty(_, _)
ExpectedQty(transactions, qty) ==
  IF transactions = <<>> THEN qty
  ELSE LET effect == BalanceEffect(transactions[1], qty, 0)
       IN  ExpectedQty(Tail(transactions),
                       IF effect = <<>> THEN qty ELSE effect[1].newQty)

\* The current quantity app 761 holds for a key (0 when it has no record).
PersistedQty(key) ==
  LET records == BalanceRecords(balStore,
                   BalanceId(key.itemCode, key.warehouse, key.location))
  IN  IF records = <<>> THEN 0 ELSE records[1].current_qty

\* C5 - balance invariant: after create and edit events for one location key,
\* each handled to completion, the persisted current_qty is the quantity
\* obtained by applying each confirmed transaction once, in date order, from 0.
BalanceInvariant ==
  ( /\ pending = {}
    /\ "delete" \notin seen
    /\ \A i \in DOMAIN txStore : getAffectedItems(txStore[i]) = <<K1>> )
  => PersistedQty(K1) = ExpectedQty(ConfirmedOf(K1), 0)

\* A state in which the edit of a confirmed receipt of 100 was saved with the
\* status unchanged: app 761 holds 200 where one application gives 100.
AppliedTwice ==
  /\ pending = {}
  /\ nEvents = 2
  /\ Len(txStore) = 1
  /\ txStore[1].transaction_type = TRANSACTION_TYPES.RECEIVED
  /\ txStore[1].status = STATUSES.CONFIRMED
  /\ seen = {"create", "edit"}
  /\ ExpectedQty(ConfirmedOf(K1), 0) = 100
  /\ PersistedQty(K1) = 200

(***************************************************************************)
(* Properties of the summary writers and of the two balance paths          *)
(***************************************************************************)
\* C7 - full-replace merge: a summary record the batch found under its id holds,
\* after the batch, the quantities the batch computed for its date, not those
\* quantities added to what was stored.
FullReplaceMerge ==
  lastOp.op = "batch" =>
    \A k \in DOMAIN lastBatch.found :
      LET f == lastBatch.found[k]
      IN  /\ projStore[f.id].actual_received_qty = f.record.actual_received_qty
          /\ projStore[f.id].actual_issued_qty = f.record.actual_issued_qty

\* The records of app 762 of a key and a date.
EntriesOf(key, date) ==
  { i \in DOMAIN projStore :
      /\ ~projStore[i].deleted
      /\ projStore[i].item_code = key.itemCode
      /\ projStore[i].warehouse = key.warehouse
      /\ projStore[i].location = key.location
      /\ projStore[i].summary_date = date }

\* C8 - composite-key uniqueness: after summary writes that ran one after the
\* other, app 762 holds at most one record per (item, warehouse, location, date).
CompositeKeyUnique ==
  pending = {} =>
    \A key \in LocationKeys, date \in TxDates : Cardinality(EntriesOf(key, date)) <= 1

\* The store holds exactly a confirmed receipt of 100 at 10.00 followed by a
\* confirmed issue of 30, both of key K1.
ReceiptThenIssue ==
  /\ Len(txStore) = 2
  /\ \A i \in 1..2 : /\ getAffectedItems(txStore[i]) = <<K1>>
                    /\ txStore[i].status = STATUSES.CONFIRMED
                    /\ ~txStore[i].deleted
  /\ txStore[1].transaction_type = TRANSACTION_TYPES.RECEIVED
  /\ txStore[2].transaction_type = TRANSACTION_TYPES.ISSUED
  /\ txStore[1].transaction_date <= txStore[2].transaction_date

\* Both were applied once by the handlers of their create events.
AppliedByEvents == pending = {} /\ seen = {"create"} /\ nEvents = 2

\* Both were imported and applied once by the batch.
AppliedByBatch ==
  /\ seen = {"import", "batch"}
  /\ \A i \in DOMAIN txStore : "shori-zumi" \in txStore[i].processed_flag

\* The balance record of K1 holds 70 at 10.00.
SeventyAtTen ==
  LET records == BalanceRecords(balStore, BalanceId(K1.itemCode, K1.warehouse, K1.location))
  IN  /\ records # <<>>
      /\ records[1].current_qty = 70
      /\ records[1].average_cost = 1000

\* C10 - a confirmed issue never changes average_cost: from an empty balance, a
\* confirmed receipt of 100 at 10.00 followed by a confirmed issue of 30 leaves
\* 70 at 10.00, applied one by one by the handlers or as a group by the batch.
IssueKeepsCost ==
  (ReceiptThenIssue /\ (AppliedByEvents \/ AppliedByBatch)) => SeventyAtTen

\* The receipt and the issue were applied by the handlers and left 70 at 10.00.
IssueKeepsCostByEvents == ReceiptThenIssue /\ AppliedByEvents /\ SeventyAtTen

(***************************************************************************)
(* Properties of the generated list                                        *)
(***************************************************************************)
\* C15 - projected chain: in the list generated by a run of
\* updateInventoryProjection, the projected ending quantity of every date after
\* the first is that of the date before plus the received and planned-received
\* quantities of the date minus its issued and planned-issued quantities.
ProjectedChain ==
  \A k \in 1..(Len(lastRun.summaryData) - 1) :
    LET e == lastRun.summaryData[k + 1]
    IN  e.projected_ending_qty =
          lastRun.summaryData[k].projected_ending_qty
            + e.received_qty - e.issued_qty
            + e.planned_received_qty - e.planned_issued_qty

\* A run whose list holds a planned receipt after today, and from today on
\* carries the projected quantity from each date to the next.
ProjectedChainForward ==
  /\ lastRun.n > 0
  /\ lastRun.summaryData[PAST_DAYS + 1 + MaxDay].planned_received_qty > 0
  /\ \A k \in (PAST_DAYS + 1)..(Len(lastRun.summaryData) - 1) :
       LET e == lastRun.summaryData[k + 1]
       IN  e.projected_ending_qty =
             lastRun.summaryData[k].projected_ending_qty
               + e.received_qty - e.issued_qty
               + e.planned_received_qty - e.planned_issued_qty

\* C16 - actuals-only history: every entry generated for a past date
\* (today-30 .. today-1) has planned_received_qty = 0, planned_issued_qty = 0
\* and a projected ending quantity equal to its ending quantity, also when
\* planned transactions dated in the past exist.
ActualsOnlyHistory ==
  \A k \in DOMAIN lastRun.summaryData :
    LET e == lastRun.summaryData[k]
    IN  e.date < Today =>
          /\ e.planned_received_qty = 0
          /\ e.planned_issued_qty = 0
          /\ e.projected_ending_qty = e.ending_qty

\* A run over confirmed transactions dated in the past and no planned one in
\* the past: the past entries show actual quantities only.
ActualsOnlyWitness ==
  /\ lastRun.n > 0
  /\ \E k \in 1..PAST_DAYS : lastRun.summaryData[k].issued_qty > 0
  /\ \A k \in 1..PAST_DAYS :
       /\ lastRun.summaryData[k].planned_received_qty = 0
       /\ lastRun.summaryData[k].planned_issued_qty = 0
       /\ lastRun.summaryData[k].projected_ending_qty = lastRun.summaryData[k].ending_qty

\* C17 - window shape: every run of updateInventoryProjection produces exactly
\* 121 entries (30 past, today, 90 future), one for each date of
\* today-30 .. today+90, none missing or repeated, in ascending date order.
WindowShape ==
  lastRun.n > 0 =>
    /\ Len(lastRun.summaryData) = 121
    /\ Len(lastRun.summaryData) = PAST_DAYS + 1 + FUTURE_DAYS
    /\ \A k \in DOMAIN lastRun.summaryData :
         lastRun.summaryData[k].date = Today - PAST_DAYS + (k - 1)

\* A run over transactions dated on the first and on the last date of the
\* window.
WindowShapeWitness ==
  /\ lastRun.n > 0
  /\ lastRun.summaryData[1].issued_qty > 0
  /\ lastRun.summaryData[Len(lastRun.summaryData)].planned_issued_qty > 0

\* C31 - forward segment continuity: in the entries generated for today ..
\* today+90 the entry of today opens with the current quantity minus the
\* confirmed receipts plus the confirmed issues of today, every later entry
\* opens with the ending quantity of the entry before it, and the dates
\* increase strictly.
ForwardContinuity ==
  lastRun.n > 0 =>
    /\ TodayEntry.opening_qty =
         lastRun.currentQty - TodayEntry.received_qty + TodayEntry.issued_qty
    /\ \A k \in (PAST_DAYS + 1)..(PAST_DAYS + FUTURE_DAYS) :
         /\ lastRun.summaryData[k + 1].opening_qty = lastRun.summaryData[k].ending_qty
         /\ lastRun.summaryData[k + 1].date > lastRun.summaryData[k].date

\* A run over a confirmed receipt of today and a confirmed issue of tomorrow:
\* tomorrow opens with what today ends with, and ends with less.
ForwardContinuityWitness ==
  /\ lastRun.n > 0
  /\ TodayEntry.received_qty > 0
  /\ lastRun.summaryData[PAST_DAYS + 2].issued_qty > 0
  /\ lastRun.summaryData[PAST_DAYS + 2].opening_qty = TodayEntry.ending_qty
  /\ lastRun.summaryData[PAST_DAYS + 2].ending_qty < TodayEntry.ending_qty
  /\ TodayEntry.ending_qty # TodayEntry.opening_qty

\* C18 - stockout prediction: checkStockoutAlert reports a date if and only if
\* some entry dated after today has a projected ending quantity <= 0, and the
\* date it reports is the earliest such date.
StockoutPrediction ==
  lastRun.n > 0 =>
    LET hits == { k \in DOMAIN lastRun.summaryData :
                    /\ lastRun.summaryData[k].date > Today
                    /\ lastRun.summaryData[k].projected_ending_qty <= 0 }
    IN  /\ lastRun.stockout # <<>> <=> hits # {}
        /\ lastRun.stockout # <<>> =>
             /\ \E k \in hits : lastRun.summaryData[k].date = lastRun.stockout[1]
             /\ \A k \in hits : lastRun.summaryData[k].date >= lastRun.stockout[1]

\* A run that read a positive quantity and reported the last date of the
\* window, where a planned issue uses the quantity up.
StockoutWitness ==
  /\ lastRun.n > 0
  /\ lastRun.currentQty > 0
  /\ lastRun.stockout = <<Today + FUTURE_DAYS>>

\* A run that reported nothing.
StockoutNone ==
  /\ lastRun.n > 0
  /\ lastRun.stockout = <<>>

(***************************************************************************)
(* Properties of the transaction status                                    *)
(***************************************************************************)
\* The transactions that are planned or cancelled.
Quiet == { i \in DOMAIN txStore : txStore[i].status \in {STATUSES.PLANNED, STATUSES.CANCELLED} }

\* App 760 without the transactions at the positions in S.
Without(S) == [ i \in DOMAIN txStore |-> [txStore[i] EXCEPT !.deleted = @ \/ i \in S] ]

\* Two entries, generated or stored, agree on the fields in F.
SameOn(F, a, b) == \A f \in F : a[f] = b[f]

\* The balance handler ran for a planned or cancelled transaction.
QuietBalanceStep ==
  "balance" \in pending /\ "balance" \notin pending' /\ lastOp.id \in Quiet

\* The projection handler ran for a planned or cancelled transaction with a
\* location key.
QuietProjectionStep ==
  /\ "projection" \in pending /\ "projection" \notin pending'
  /\ lastOp.id \in Quiet
  /\ getAffectedItems(txStore[lastOp.id]) # <<>>

\* What the projection handler generates and stores when the transaction of the
\* event is left out.
RunWithoutEventRecord ==
  LET key == getAffectedItems(txStore[lastOp.id])[1]
  IN  updateInventoryProjection(Without({lastOp.id}), balStore, projStore,
                                key.itemCode, key.warehouse, key.location)

\* C14 - status isolation: a planned transaction changes neither the balance nor
\* the received, issued, opening or ending quantity of any projection entry,
\* only the planned quantities and the projected ending quantity; a cancelled
\* transaction changes neither the balance nor any field of any projection
\* entry; in the event handlers and in the batch update.
StatusIsolation ==
  [][ /\ QuietBalanceStep => balStore' = balStore
      /\ QuietProjectionStep =>
           LET without == RunWithoutEventRecord
               cancelled == txStore[lastOp.id].status = STATUSES.CANCELLED
           IN  /\ Len(lastRun'.summaryData) = Len(without.summaryData)
               /\ \A k \in DOMAIN without.summaryData :
                    /\ SameOn({"date", "opening_qty", "received_qty", "issued_qty",
                               "ending_qty"},
                              lastRun'.summaryData[k], without.summaryData[k])
                    /\ cancelled => lastRun'.summaryData[k] = without.summaryData[k]
               /\ Len(projStore') = Len(without.store)
               /\ \A i \in DOMAIN without.store :
                    /\ SameOn(DOMAIN without.store[i]
                                \ {"planned_received_qty", "planned_issued_qty",
                                   "projected_ending_qty"},
                              projStore'[i], without.store[i])
                    /\ cancelled => projStore'[i] = without.store[i]
      /\ lastBatch'.n = lastBatch.n + 1 =>
           LET without == batchUpdateInventory(Without(Quiet), balStore, projStore)
           IN  balStore' = without.bal /\ projStore' = without.proj
    ]_vars

\* A planned receipt of 100 dated tomorrow was created over a balance that is
\* not 0, and both handlers ran: the list shows it as planned only.
StatusIsolationWitness ==
  /\ pending = {}
  /\ lastOp.op = "create"
  /\ txStore[lastOp.id].status = STATUSES.PLANNED
  /\ lastRun.key = K1
  /\ lastRun.currentQty # 0
  /\ lastRun.summaryData[PAST_DAYS + 1 + MaxDay].planned_received_qty = 100
  /\ lastRun.summaryData[PAST_DAYS + 1 + MaxDay].received_qty = 0

(***************************************************************************)
(* Properties of the writes of one reconciliation                          *)
(***************************************************************************)
\* The record belongs to the location key.
OfKey(r, key) ==
  r.item_code = key.itemCode /\ r.warehouse = key.warehouse /\ r.location = key.location

\* The records of the store that a reconciliation of the keys must leave as
\* they are: those of other keys and, for dated records, those dated outside
\* the window.
Framed(store, keys, dated) ==
  { i \in DOMAIN store :
      \/ \A k \in DOMAIN keys : ~OfKey(store[i], keys[k])
      \/ /\ dated
         /\ \/ store[i].summary_date < Today - PAST_DAYS
            \/ store[i].summary_date > Today + FUTURE_DAYS }

FailingGroups ==
  { g \in DOMAIN lastBatch.groups :
      LET fault == lastBatch.faults[lastBatch.groups[g].key]
          records == lastBatch.groups[g].records
      IN  \/ fault = "mark"
          \/ /\ fault = "balance"
             /\ \E i \in DOMAIN records : records[i].status = STATUSES.CONFIRMED }

\* The number of records in the groups at the positions in S.
RECURSIVE GroupedRecords(_)
GroupedRecords(S) ==
  IF S = {} THEN 0
  ELSE LET g == CHOOSE h \in S : TRUE
       IN  Len(lastBatch.groups[g].records) + GroupedRecords(S \ {g})

TypedResults ==
  call.fn \in {"updateInventoryBalance", "updateInventoryProjection", "batchUpdateInventory"}
    => call.outcome = "returned"

\* A run of the batch during which a write was rejected has returned a result
\* that reports the failure.
TypedFailureReturned ==
  /\ call.fn = "batchUpdateInventory"
  /\ call.outcome = "returned"
  /\ call.value # <<>>
  /\ ~call.value[1].success

\* The transactions that lack the item code, the warehouse or the location.
Keyless ==
  { i \in DOMAIN txStore :
      txStore[i].item_code = "" \/ txStore[i].warehouse = "" \/ txStore[i].location = "" }

\* The groups and the reported errors of a batch run name the record.
NamedByBatch(result, groups, i) ==
  \/ \E g \in DOMAIN groups : \E k \in DOMAIN groups[g].records : groups[g].records[k].id = i
  \/ /\ "errors" \in DOMAIN result
     /\ \E e \in DOMAIN result.errors :
          \E k \in DOMAIN result.errors[e].recordIds : result.errors[e].recordIds[k] = i

\* C23 - missing key fields: for a transaction without item code, warehouse or
\* location the balance handler's call of updateInventoryBalance returns
\* without an error and the projection handler returns at once, and both leave
\* the balances and the projection entries as they are; the batch ends as it
\* does without the record, with the same balances and projection entries, and
\* the record is in no group and in no reported error.
MissingKeyExclusion ==
  [][ /\ (call'.fn = "updateInventoryBalance" /\ lastOp.id \in Keyless) =>
           /\ call'.outcome = "returned"
           /\ balStore' = balStore /\ projStore' = projStore
      /\ (call'.fn \in {"getAffectedItems", "updateInventoryProjection"}
            /\ lastOp.id \in Keyless) =>
           /\ call'.fn = "getAffectedItems"
           /\ call'.outcome = "returned"
           /\ balStore' = balStore /\ projStore' = projStore
      /\ call'.fn = "batchUpdateInventory" =>
           LET without == BatchCall(Without(Keyless), balStore, projStore,
                                    call'.fault, call'.faults)
               groups == groupByItemWarehouseLocation(getUnprocessedRecords(txStore), <<>>)
           IN  /\ call'.outcome = without.end.outcome
               /\ balStore' = without.bal /\ projStore' = without.proj
               /\ call'.outcome = "returned" =>
                    \A i \in Keyless : ~NamedByBatch(call'.value[1], groups, i)
    ]_vars

\* The batch ran over a confirmed receipt without location and a confirmed
\* receipt of K1: it applied the second and returned.
MissingKeyWitness ==
  /\ call.fn = "batchUpdateInventory"
  /\ call.outcome = "returned"
  /\ Keyless # {}
  /\ Len(balStore) = 1
  /\ balStore[1].location = K1.location
  /\ call.value[1].processedCount = 1
  /\ \E i \in Keyless : "shori-zumi" \notin txStore[i].processed_flag

\* The transactions whose type is none of the configured ones.
UnknownTyped ==
  { i \in DOMAIN txStore :
      txStore[i].transaction_type \notin
        { TRANSACTION_TYPES[n] : n \in DOMAIN TRANSACTION_TYPES } }

\* The balance fields that a transaction may change.
BalanceValueFields ==
  { BALANCE_FIELDS.CURRENT_QTY, BALANCE_FIELDS.AVERAGE_COST, BALANCE_FIELDS.ALERT_FLAG,
    BALANCE_FIELDS.LAST_TRANSACTION_DATE }

\* Every balance record of the store before is in the store after with the
\* same quantity, cost, alert flag and date.
BalanceKept(before, after) ==
  /\ Len(after) >= Len(before)
  /\ \A i \in DOMAIN before : SameOn(BalanceValueFields, before[i], after[i])

\* C24 - unknown transaction type: when no request is rejected, a confirmed
\* transaction of a type that is not received, issued, adjustment or initial
\* makes updateInventoryBalance return without an error with the balance
\* records as they were, adds nothing to the quantities the projection
\* aggregates, and leaves the balance records of a batch run as the run without
\* the transaction leaves them.
UnknownTypeIgnored ==
  [][ /\ (/\ call'.fn = "updateInventoryBalance" /\ call'.fault = "none"
          /\ lastOp.id \in UnknownTyped) =>
           /\ call'.outcome = "returned"
           /\ BalanceKept(balStore, balStore')
      /\ (call'.fn = "updateInventoryProjection" /\ call'.fault = "none") =>
           LET key == getAffectedItems(txStore[lastOp.id])[1]
           IN  projStore' = ProjectionCall(Without(UnknownTyped), balStore, projStore,
                                           key.itemCode, key.warehouse, key.location,
                                           "none").store
      /\ (/\ call'.fn = "batchUpdateInventory" /\ call'.fault = "none"
          /\ \A k \in DOMAIN call'.faults : call'.faults[k] = "none") =>
           /\ call'.outcome = "returned"
           /\ BalanceKept(BatchCall(Without(UnknownTyped), balStore, projStore,
                                    "none", NoFaults).bal,
                          balStore')
    ]_vars

\* updateInventoryBalance was called for a confirmed transaction of an unknown
\* type while a balance record existed: it returned and the record is as it
\* was.
UnknownTypeKeptByEvent ==
  /\ call.fn = "updateInventoryBalance"
  /\ call.fault = "none"
  /\ lastOp.id \in UnknownTyped
  /\ call.outcome = "returned"
  /\ balStore = <<StoredBalance(K1, 5, 1000)>>

\* The balance records of a location key.
BalancesOf(key) ==
  { i \in DOMAIN balStore : ~balStore[i].deleted /\ OfKey(balStore[i], key) }

\* C25 - one balance record per location key: whatever calls were made and
\* whatever requests were rejected during them, app 761 holds at most one
\* record of a location key, stored under the balance id of the key.
OneBalancePerKey ==
  \A key \in LocationKeys :
    /\ Cardinality(BalancesOf(key)) <= 1
    /\ \A i \in BalancesOf(key) :
         balStore[i].balance_id = BalanceId(key.itemCode, key.warehouse, key.location)

\* The batch found the balance record of K1, updated it and created none.
BalanceFoundByBatch ==
  /\ call.fn = "batchUpdateInventory"
  /\ call.outcome = "returned"
  /\ call.value[1].processedCount > 0
  /\ BalancesOf(K1) = {1}
  /\ balStore[1].current_qty # 5

(***************************************************************************)
(* Properties of the costing function                                      *)
(***************************************************************************)
\* r is the quotient n / d (d > 0) rounded to the nearest integer, a half up.
IsRounded(r, n, d) == 2 * r * d - d <= 2 * n /\ 2 * n < 2 * r * d + d

\* C9 - costing function: calculateMovingAverageCost returns currentCost when
\* addQty <= 0, else 0 when currentQty + addQty <= 0, else the weighted average
\* (currentQty*currentCost + addQty*addCost) / (currentQty + addQty) rounded to
\* 2 decimals; so Costing(100, 10.00, 50, 13.00) = 11.00 and
\* Costing(100, 10.00, -1, 0) = 10.00.
CostingFunction ==
  call.returned =>
    /\ call.addQty <= 0 => call.result = call.currentCost
    /\ (call.addQty > 0 /\ call.currentQty + call.addQty <= 0) => call.result = 0
    /\ (call.addQty > 0 /\ call.currentQty + call.addQty > 0) =>
         IsRounded(call.result,
                   call.currentQty * call.currentCost + call.addQty * call.addCost,
                   call.currentQty + call.addQty)
    /\ ( call.currentQty = 100 /\ call.currentCost = 1000
         /\ call.addQty = 50 /\ call.addCost = 1300 ) => call.result = 1100
    /\ ( call.currentQty = 100 /\ call.currentCost = 1000
         /\ call.addQty = -1 /\ call.addCost = 0 ) => call.result = 1000

\* The call Costing(100, 10.00, 50, 13.00) returned 11.00.
CostingWitness ==
  /\ call.returned
  /\ call.currentQty = 100 /\ call.currentCost = 1000
  /\ call.addQty = 50 /\ call.addCost = 1300
  /\ call.result = 1100

(***************************************************************************)
(* Properties of the balance updater, transaction by transaction           *)
(***************************************************************************)
\* The balance record of K1 after the call.
AppliedBalance == balStore[1]

\* C11 - balance updater per type: for a confirmed transaction applied to a
\* balance (qty, cost), updateInventoryBalance stores qty + quantity and
\* Costing(qty, cost, quantity, unit_cost) for a receipt, qty - quantity and the
\* cost unchanged for an issue, physical_count and the cost unchanged for an
\* adjustment, quantity and unit_cost for an initial stock; and it sets
\* last_transaction_date to the date of the transaction, to today when the
\* transaction has none.
UpdaterPerType ==
  LET t == call.record
      known == t.transaction_type \in { TRANSACTION_TYPES[n] : n \in DOMAIN TRANSACTION_TYPES }
  IN  (call.applied /\ known) =>
        /\ t.transaction_type = "nyuko" =>
             /\ AppliedBalance.current_qty = call.qty + t.quantity
             /\ AppliedBalance.average_cost =
                  calculateMovingAverageCost(call.qty, call.cost, t.quantity, t.unit_cost)
        /\ t.transaction_type = "shukko" =>
             /\ AppliedBalance.current_qty = call.qty - t.quantity
             /\ AppliedBalance.average_cost = call.cost
        /\ t.transaction_type = "tanaoroshi-chosei" =>
             /\ AppliedBalance.current_qty = t.physical_count
             /\ AppliedBalance.average_cost = call.cost
        /\ t.transaction_type = "shoki-zaiko" =>
             /\ AppliedBalance.current_qty = t.quantity
             /\ AppliedBalance.average_cost = t.unit_cost
        /\ AppliedBalance.last_transaction_date =
             IF "transaction_date" \in DOMAIN t THEN t.transaction_date ELSE Today

\* An initial stock of 30 at 13.00 without a date was applied to a balance of
\* 70 at 10.00 and left 30 at 13.00, dated today.
UpdaterWitness ==
  /\ call.applied
  /\ call.record.transaction_type = "shoki-zaiko"
  /\ "transaction_date" \notin DOMAIN call.record
  /\ call.qty = 70 /\ call.cost = 1000
  /\ AppliedBalance.current_qty = 30
  /\ AppliedBalance.average_cost = 1300
  /\ AppliedBalance.last_transaction_date = Today

\* C22 - negative balance: a confirmed issue of more than the current quantity
\* is applied, not rejected: the balance is stored with the negative quantity
\* current_qty - quantity and with the configured out-of-stock alert value.
NegativeBalance ==
  LET t == call.record
  IN  (/\ call.applied
       /\ t.transaction_type = TRANSACTION_TYPES.ISSUED
       /\ t.quantity > call.qty) =>
        /\ balStore # <<>>
        /\ AppliedBalance.current_qty = call.qty - t.quantity
        /\ AppliedBalance.current_qty < 0
        /\ AppliedBalance.alert_flag = ALERT_FLAGS.OUT

\* An issue of 30 was applied to a balance of 5 and left -25 in current_qty.
NegativeQuantityStored ==
  /\ call.applied
  /\ call.record.transaction_type = TRANSACTION_TYPES.ISSUED
  /\ call.record.quantity = 30
  /\ call.qty = 5
  /\ AppliedBalance.current_qty = -25
  /\ AppliedBalance.average_cost = call.cost

\* C26 - non-negative cost: a confirmed transaction with a non-negative quantity
\* and unit cost, applied to a balance with a non-negative average cost (its
\* quantity may be negative after earlier issues), leaves an average cost >= 0.
NonNegativeCost ==
  \A i \in DOMAIN balStore : balStore[i].average_cost >= 0

\* A receipt of 30 at 13.00 was applied to a balance of -5 at 10.00 and left 25
\* at 13.60.
CostAfterNegativeQuantity ==
  /\ call.applied
  /\ call.record.transaction_type = TRANSACTION_TYPES.RECEIVED
  /\ call.qty = -5 /\ call.cost = 1000
  /\ call.record.quantity = 30 /\ call.record.unit_cost = 1300
  /\ AppliedBalance.current_qty = 25
  /\ AppliedBalance.average_cost = 1360

\* The configured alert value for a quantity and a safety stock.
ConfiguredAlert(qty, safetyStock) ==
  IF qty <= 0 THEN ALERT_FLAGS.OUT
  ELSE IF qty < safetyStock THEN ALERT_FLAGS.LOW
  ELSE ALERT_FLAGS.NORMAL

\* C12 - alert classification: determineAlertFlag(qty, safetyStock) is the
\* configured out-of-stock value when qty <= 0, the configured low-stock value
\* when 0 < qty < safetyStock and the configured normal value otherwise, so
\* alert(0,10) and alert(-3,10) are out of stock, alert(5,10) is low stock and
\* alert(10,10) is normal; and the flag stored on the balance after an update
\* is this value for the new quantity.
AlertClassification ==
  LET t == call.record
      known == t.transaction_type \in { TRANSACTION_TYPES[n] : n \in DOMAIN TRANSACTION_TYPES }
  IN  (call.applied /\ known) =>
        /\ AppliedBalance.alert_flag =
             ConfiguredAlert(AppliedBalance.current_qty, AppliedBalance.safety_stock)
        /\ determineAlertFlag(0, 10) = ALERT_FLAGS.OUT
        /\ determineAlertFlag(5, 10) = ALERT_FLAGS.LOW
        /\ determineAlertFlag(10, 10) = ALERT_FLAGS.NORMAL
        /\ determineAlertFlag(-3, 10) = ALERT_FLAGS.OUT

\* An update that left a quantity at or above the safety stock stored the
\* configured normal value.
AlertNormalStored ==
  /\ call.applied
  /\ AppliedBalance.current_qty >= AppliedBalance.safety_stock
  /\ AppliedBalance.safety_stock > 0
  /\ AppliedBalance.alert_flag = ALERT_FLAGS.NORMAL

(***************************************************************************)
(* Properties of the aggregator                                            *)
(***************************************************************************)
\* What one transaction contributes to a bucket of its date.
Contribution(tx, bucket) ==
  LET diff == tx.physical_count - tx.before_qty
      inbound == tx.transaction_type \in {"nyuko", "shoki-zaiko"}
      outbound == tx.transaction_type = "shukko"
      count == tx.transaction_type = "tanaoroshi-chosei"
  IN  IF bucket = "received_qty"
      THEN IF tx.status = "kakutei" /\ inbound THEN tx.quantity
           ELSE IF tx.status = "kakutei" /\ count /\ diff > 0 THEN diff ELSE 0
      ELSE IF bucket = "issued_qty"
      THEN IF tx.status = "kakutei" /\ outbound THEN tx.quantity
           ELSE IF tx.status = "kakutei" /\ count /\ diff < 0 THEN 0 - diff ELSE 0
      ELSE IF bucket = "planned_received_qty"
      THEN IF tx.status = "yotei" /\ inbound THEN tx.quantity ELSE 0
      ELSE IF tx.status = "yotei" /\ outbound THEN tx.quantity ELSE 0

\* The sum of the contributions of the transactions at the positions in S.
RECURSIVE SumContribution(_, _, _)
SumContribution(transactions, S, bucket) ==
  IF S = {} THEN 0
  ELSE LET i == CHOOSE j \in S : TRUE
       IN  Contribution(transactions[i], bucket)
             + SumContribution(transactions, S \ {i}, bucket)

\* C13 - aggregator rules: aggregateTransactionsByDate yields, for each date of
\* the list, received = confirmed receipts and initial stocks plus positive
\* adjustment differences, issued = confirmed issues plus the absolute values
\* of negative adjustment differences, planned_received / planned_issued = the
\* planned receipts-or-initial stocks / planned issues; and the result is the
\* same for every order of the list.
AggregatorRules ==
  call.returned =>
    LET l == call.transactions
        dates == { l[i].transaction_date : i \in DOMAIN l }
    IN  /\ DOMAIN call.result = dates
        /\ \A d \in dates :
             \A bucket \in DOMAIN EmptyDaily :
               call.result[d][bucket] =
                 SumContribution(l, { i \in DOMAIN l : l[i].transaction_date = d }, bucket)
        /\ call.reordered = call.result

\* A list of three transactions that holds the count of 65 after 70 and a
\* confirmed issue on the same date, handed over in another order: the count
\* adds 5 to the issued quantity of that date.
AggregatorWitness ==
  /\ call.returned
  /\ Len(call.transactions) = MaxList
  /\ call.transactions[1] = Adjustment("kakutei", Today, 70, 65)
  /\ call.transactions[2] = NewTransaction(K1, "shukko", "kakutei", Today)
  /\ call.transactions[3] = NewTransaction(K1, "nyuko", "yotei", Today - MaxDay)
  /\ call.result[Today].issued_qty = 35
  /\ call.result[Today - MaxDay].planned_received_qty = 100

(***************************************************************************)
(* Properties of repeated runs of the batch                                *)
(***************************************************************************)
\* The confirmed transactions of a key.
ConfirmedIds(key) ==
  { i \in DOMAIN txStore :
      /\ ~txStore[i].deleted
      /\ OfKey(txStore[i], key)
      /\ txStore[i].status = STATUSES.CONFIRMED }

\* The quantities a balance can hold when each transaction of ids was applied
\* at most once, starting from 0.
AppliedAtMostOnce(ids) ==
  { ExpectedQty(SelectSeq(txStore, LAMBDA r : r.id \in S), 0) : S \in SUBSET ids }

\* C29 - the batch applies each transaction at most once: after any number of
\* runs, whatever writes were rejected during them, the current quantity of a
\* key is the result of applying confirmed transactions of the key at most once
\* each, and the transactions of a key whose balance was written are flagged
\* processed.
BatchAtMostOnce ==
  \A key \in LocationKeys :
    /\ PersistedQty(key) \in AppliedAtMostOnce(ConfirmedIds(key))
    /\ BalancesOf(key) # {} =>
         \A i \in ConfirmedIds(key) : "shori-zumi" \in txStore[i].processed_flag

\* Two runs without a rejected write over one confirmed receipt of K1: the
\* first applied it and flagged it, the second found nothing, the balance is 100.
BatchOnceWitness ==
  /\ lastBatch.n = 2
  /\ lastBatch.found = <<>>
  /\ Len(txStore) = 1
  /\ ConfirmedIds(K1) = {1}
  /\ "shori-zumi" \in txStore[1].processed_flag
  /\ PersistedQty(K1) = 100

(***************************************************************************)
(* Properties of the records upsertSummaryRecords stores                   *)
(***************************************************************************)
\* The records of app 762 that the last run wrote: those of its key dated in
\* the window.
WrittenByRun ==
  { i \in DOMAIN projStore :
      /\ ~projStore[i].deleted
      /\ OfKey(projStore[i], lastRun.key)
      /\ projStore[i].summary_date >= Today - PAST_DAYS
      /\ projStore[i].summary_date <= Today + FUTURE_DAYS }

\* The entry of the generated list for the date of a stored record.
GeneratedFor(i) == lastRun.summaryData[projStore[i].summary_date - (Today - PAST_DAYS) + 1]

\* C30 - persisted ledger fields: every record written by upsertSummaryRecords
\* holds the computed opening, received and issued quantities in beginning_qty,
\* actual_received_qty and actual_issued_qty, so that its ending_qty equals
\* beginning_qty + actual_received_qty - actual_issued_qty.
PersistedLedger ==
  lastRun.n > 0 =>
    \A i \in WrittenByRun :
      /\ projStore[i][PROJECTION_FIELDS.BEGINNING_QTY] = GeneratedFor(i).opening_qty
      /\ projStore[i][PROJECTION_FIELDS.ACTUAL_RECEIVED_QTY] = GeneratedFor(i).received_qty
      /\ projStore[i][PROJECTION_FIELDS.ACTUAL_ISSUED_QTY] = GeneratedFor(i).issued_qty
      /\ projStore[i][PROJECTION_FIELDS.ENDING_QTY] =
           projStore[i][PROJECTION_FIELDS.BEGINNING_QTY]
             + projStore[i][PROJECTION_FIELDS.ACTUAL_RECEIVED_QTY]
             - projStore[i][PROJECTION_FIELDS.ACTUAL_ISSUED_QTY]

\* A run stored the ending and the planned quantities it computed in every
\* record of the window, among them a day with a confirmed receipt.
EndingPersisted ==
  /\ lastRun.n > 0
  /\ Cardinality(WrittenByRun) = PAST_DAYS + 1 + FUTURE_DAYS
  /\ \A i \in WrittenByRun :
       /\ projStore[i][PROJECTION_FIELDS.ENDING_QTY] = GeneratedFor(i).ending_qty
       /\ projStore[i][PROJECTION_FIELDS.PROJECTED_ENDING_QTY] =
            GeneratedFor(i).projected_ending_qty
  /\ \E i \in WrittenByRun : GeneratedFor(i).received_qty > 0

(***************************************************************************)
(* Properties of the two handlers of one create event                      *)
(***************************************************************************)
\* The records of app 762 stored for a key and today.
StoredForToday(key) ==
  { i \in DOMAIN projStore :
      /\ ~projStore[i].deleted
      /\ projStore[i].summary_id =
           UpsertSummaryId(key.itemCode, key.warehouse, key.location, Today) }

\* The record created by the event is confirmed, dated today and has a key.
ConfirmedTodayCreated ==
  /\ lastOp.op = "create"
  /\ txStore[lastOp.id].status = STATUSES.CONFIRMED
  /\ txStore[lastOp.id].transaction_date = Today
  /\ getAffectedItems(txStore[lastOp.id]) # <<>>

\* C28 - balance before projection: once the balance handler and the
\* projection handler of the create event of a confirmed transaction dated
\* today have both completed, in either order, the projection record stored for
\* today ends with the current quantity stored in the balance record.
BalanceBeforeProjection ==
  (pending = {} /\ ConfirmedTodayCreated) =>
    LET key == getAffectedItems(txStore[lastOp.id])[1]
    IN  /\ StoredForToday(key) # {}
        /\ \A i \in StoredForToday(key) :
             projStore[i][PROJECTION_FIELDS.ENDING_QTY] = PersistedQty(key)

\* A confirmed receipt of 100 dated today was created with no balance record
\* yet; both handlers completed and the record of today ends with the 100 the
\* balance holds.
BalanceThenProjection ==
  /\ pending = {}
  /\ ConfirmedTodayCreated
  /\ Len(txStore) = 1
  /\ txStore[1].transaction_type = TRANSACTION_TYPES.RECEIVED
  /\ PersistedQty(K1) = 100
  /\ lastRun.currentQty = 100
  /\ \A i \in StoredForToday(K1) : projStore[i][PROJECTION_FIELDS.ENDING_QTY] = 100
  /\ StoredForToday(K1) # {}

(***************************************************************************)
(* Properties of the interleaved handlers                                  *)
(***************************************************************************)
\* The location key a session is reconciling, if any.
ReconcilingKey(s) ==
  IF sess[s].pc = "idle" THEN <<>> ELSE getAffectedItems(sess[s].record[1])

\* C6 - per-key mutual exclusion: at any time at most one reconciliation is in
\* progress for a location key.
MutualExclusion ==
  \A s1 \in Sessions, s2 \in Sessions :
    (s1 # s2 /\ ReconcilingKey(s1) # <<>>) => ReconcilingKey(s1) # ReconcilingKey(s2)

\* C27 - no lost update: when the handlers of two confirmed transactions of one
\* location key have both finished, however their reads and writes of the
\* balance record interleaved, the persisted current_qty is the quantity with
\* the effect of both transactions.
NoLostUpdate ==
  ( /\ \A s \in Sessions : sess[s].pc = "idle"
    /\ Len(ConfirmedOf(K1)) = 2 )
  => PersistedQty(K1) = ExpectedQty(ConfirmedOf(K1), 0)

\* A receipt of 100 and an issue of 30 of K1 were handled and the balance holds
\* 70: the effect of both.
BothReflected ==
  /\ \A s \in Sessions : sess[s].pc = "idle"
  /\ Len(ConfirmedOf(K1)) = 2
  /\ ExpectedQty(ConfirmedOf(K1), 0) = 70
  /\ PersistedQty(K1) = 70

(***************************************************************************)
(* Properties of the two balance paths over one sequence                   *)
(***************************************************************************)
\* The balance record of K1 in a store.
PathBalance(store) ==
  BalanceRecords(store, BalanceId(K1.itemCode, K1.warehouse, K1.location))[1]

LastOfSequence == txStore[Len(txStore)]

\* The sequence ends with a confirmed adjustment and the batch has applied it.
AdjustmentGrouped ==
  /\ call.grouped
  /\ LastOfSequence.transaction_type = TRANSACTION_TYPES.ADJUSTMENT
  /\ LastOfSequence.status = STATUSES.CONFIRMED

\* C32 - batch adjustment overwrite: updateBalanceForGroup sets current_qty to
\* the physical_count of a confirmed adjustment (type TRANSACTION_TYPES.ADJUSTMENT),
\* whatever quantity was accumulated before it; so a group that ends with a
\* confirmed adjustment leaves current_qty = its physical_count.
BatchAdjustmentOverwrite ==
  AdjustmentGrouped => PathBalance(call.batch).current_qty = LastOfSequence.physical_count

\* The handlers of a receipt followed by a count, one record at a time, leave
\* the counted quantity.
EventAdjustmentOverwrite ==
  /\ AdjustmentGrouped
  /\ call.applied = Len(txStore)
  /\ Len(txStore) = 2
  /\ txStore[1].transaction_type = TRANSACTION_TYPES.RECEIVED
  /\ PathBalance(call.event).current_qty = LastOfSequence.physical_count

\* Both paths have applied the whole sequence.
BothApplied == call.grouped /\ call.applied = Len(txStore)

\* C34 - event path and batch path agree: the confirmed transactions of one key,
\* in date order, from the same balance (or none), applied one at a time by
\* updateInventoryBalance and as one group by updateBalanceForGroup, leave the
\* same current_qty and the same average_cost (2 decimals).
PathsAgree ==
  BothApplied =>
    /\ PathBalance(call.event).current_qty = PathBalance(call.batch).current_qty
    /\ PathBalance(call.event).average_cost = PathBalance(call.batch).average_cost

\* Two receipts at different costs applied along both paths with the same
\* result.
ReceiptsAgree ==
  /\ BothApplied
  /\ Len(txStore) = 2
  /\ \A i \in 1..2 : txStore[i].transaction_type = TRANSACTION_TYPES.RECEIVED
  /\ txStore[1].unit_cost # txStore[2].unit_cost
  /\ PathBalance(call.event).current_qty = PathBalance(call.batch).current_qty
  /\ PathBalance(call.event).average_cost = PathBalance(call.batch).average_cost
  /\ PathBalance(call.event).average_cost \notin {txStore[1].unit_cost, txStore[2].unit_cost}

(***************************************************************************)
(* Properties of the two alert functions                                   *)
(***************************************************************************)
\* C33 - single alert derivation: determineAlertFlag of the event path and
\* getAlertFlag of the batch path return the same alert value for every
\* (qty, safetyStock).
SameAlert ==
  call.returned = {"event", "batch"} => call.event = call.batch

\* Both functions returned the normal value for a quantity at or above the
\* safety stock.
SameAlertNormal ==
  /\ call.returned = {"event", "batch"}
  /\ call.qty >= call.safetyStock
  /\ call.safetyStock > 0
  /\ call.event = ALERT_FLAGS.NORMAL
  /\ call.batch = call.event

(***************************************************************************)
(* Properties of the batch run repeatedly                                  *)
(***************************************************************************)
\* The records of app 760 that have item, warehouse and location.
KeyedRecords == DOMAIN txStore \ Keyless

AllKeyedProcessed ==
  \A i \in KeyedRecords : "shori-zumi" \in txStore[i].processed_flag

\* C35 - batch progress: when batchUpdateInventory is run repeatedly and every
\* store operation succeeds, every unprocessed record that has item, warehouse
\* and location is eventually flagged processed, also when records without a
\* key (skipped, never flagged) are present and each run fetches at most
\* MAX_RECORDS records in date order.
BatchProgress == <>AllKeyedProcessed

\* Two runs flagged two records with a key that lie behind MAX_RECORDS - 1
\* records without a key: the first run fetched only one of them.
ProgressBehindKeyless ==
  /\ Cardinality(Keyless) = MAX_RECORDS - 1
  /\ Cardinality(KeyedRecords) = 2
  /\ lastBatch.n = 2
  /\ lastBatch.processedCount = 1
  /\ AllKeyedProcessed

(***************************************************************************)
(* Properties of the batch when writes of summary records are rejected     *)
(***************************************************************************)
\* The groups of the last run in which a write of the balance record or of a
\* summary record was rejected: both are written only for a group that has a
\* confirmed record.
WriteRejectedGroups ==
  { g \in DOMAIN lastBatch.groups :
      LET fault == lastBatch.faults[lastBatch.groups[g].key]
          records == lastBatch.groups[g].records
      IN  /\ fault \in {"balance", "summary"}
          /\ \E i \in DOMAIN records : records[i].status = STATUSES.CONFIRMED }

\* The groups of the last run whose records are flagged processed.
FlaggedGroups ==
  { g \in DOMAIN lastBatch.groups :
      \A i \in DOMAIN lastBatch.groups[g].records :
        "shori-zumi" \in txStore[lastBatch.groups[g].records[i].id].processed_flag }

\* C36 - processed means fully applied: the records of a group are flagged
\* processed and counted in processedCount only if the balance write of the
\* group and every write of a summary record of the group completed without
\* error.
ProcessedMeansApplied ==
  lastBatch.n > 0 =>
    /\ FlaggedGroups \cap WriteRejectedGroups = {}
    /\ lastBatch.processedCount
         <= GroupedRecords(DOMAIN lastBatch.groups \ WriteRejectedGroups)

\* A run in which the balance write of a group was rejected: its records are
\* neither flagged nor counted, those of the other group are.
BalanceRejectedNotProcessed ==
  /\ lastBatch.n > 0
  /\ Len(lastBatch.groups) = 2
  /\ WriteRejectedGroups = {1}
  /\ lastBatch.faults[lastBatch.groups[1].key] = "balance"
  /\ FlaggedGroups = {2}
  /\ lastBatch.processedCount = Len(lastBatch.groups[2].records)

(***************************************************************************)
(* Properties of the delete event                                          *)
(***************************************************************************)
\* A confirmed transaction of K1 was deleted and the refresh of the projection
\* that the delete handler delays has completed; the events before were
\* creations of transactions of K1.
ConfirmedDeleted ==
  /\ lastOp.op = "delete"
  /\ pending = {}
  /\ seen = {"create", "delete"}
  /\ txStore[lastOp.id].status = STATUSES.CONFIRMED
  /\ \A i \in DOMAIN txStore : getAffectedItems(txStore[i]) = <<K1>>

\* C37 - deletion keeps balance and projection consistent: after a confirmed
\* transaction is deleted and the delayed refresh of the projection has
\* completed, the persisted current_qty is the result of applying the remaining
\* confirmed transactions, and the persisted entry of today ends with that
\* quantity.
DeletionConsistent ==
  ConfirmedDeleted =>
    /\ PersistedQty(K1) = ExpectedQty(ConfirmedOf(K1), 0)
    /\ StoredForToday(K1) # {}
    /\ \A i \in StoredForToday(K1) :
         projStore[i].ending_qty = ExpectedQty(ConfirmedOf(K1), 0)

\* A confirmed receipt was deleted after an initial stock had been set: the
\* balance and the entry of today hold the initial stock, which is what the
\* remaining transaction gives.
DeletionConsistentWitness ==
  /\ ConfirmedDeleted
  /\ txStore[lastOp.id].transaction_type = TRANSACTION_TYPES.RECEIVED
  /\ ConfirmedOf(K1) # <<>>
  /\ PersistedQty(K1) = ExpectedQty(ConfirmedOf(K1), 0)
  /\ PersistedQty(K1) > 0
  /\ \E i \in StoredForToday(K1) : projStore[i].ending_qty = PersistedQty(K1)

(***************************************************************************)
(* Properties of the receipts against purchase orders                      *)
(***************************************************************************)
\* The last submit was a confirmed receipt that names a purchase order.
ReceiptSubmitted ==
  /\ call.submit.op # "none"
  /\ call.submit.record.transaction_type = TRANSACTION_TYPES.RECEIVED
  /\ call.submit.record.status = STATUSES.CONFIRMED
  /\ call.submit.record.po_number # ""

\* The ordered quantities app 748 holds for a PO number and an item.
OrderedQtys(poNumber, itemCode) ==
  UNION { { call.po[p].po_items[r].quantity :
              r \in { k \in DOMAIN call.po[p].po_items :
                        call.po[p].po_items[k].item_code = itemCode } } :
          p \in { k \in DOMAIN call.po : call.po[k].po_number = poNumber } }

\* The confirmed receipts of a PO number and an item among records.
ReceiptsOf(records, poNumber, itemCode) ==
  { i \in DOMAIN records :
      /\ ~records[i].deleted
      /\ records[i].po_number = poNumber
      /\ records[i].item_code = itemCode
      /\ records[i].transaction_type = TRANSACTION_TYPES.RECEIVED
      /\ records[i].status = STATUSES.CONFIRMED }

RECURSIVE QuantityOf(_, _)
QuantityOf(records, S) ==
  IF S = {} THEN 0
  ELSE LET i == CHOOSE j \in S : TRUE
       IN  records[i].quantity + QuantityOf(records, S \ {i})

\* What was confirmed as received for the PO number and the item of the
\* submitted record when it was submitted, the record itself left aside.
ReceivedBefore ==
  LET r == call.submit.record
  IN  QuantityOf(call.submit.stored,
                 ReceiptsOf(call.submit.stored, r.po_number, r.item_code)
                   \ {call.submit.id})

\* A receipt that would bring the received quantity above the ordered quantity
\* is rejected at submit.
OverDeliveryRejected ==
  ( /\ ReceiptSubmitted
    /\ \E ordered \in OrderedQtys(call.submit.record.po_number,
                                   call.submit.record.item_code) :
         ReceivedBefore + call.submit.record.quantity > ordered )
  => call.submit.error # <<>>

\* The confirmed receipts of a PO number and an item never exceed the order.
ReceivedWithinOrder ==
  \A p \in DOMAIN call.po : \A r \in DOMAIN call.po[p].po_items :
    LET row == call.po[p].po_items[r]
    IN  QuantityOf(txStore, ReceiptsOf(txStore, call.po[p].po_number, row.item_code))
          <= row.quantity

\* The last submit was the edit of a stored confirmed receipt that names a
\* purchase order, saved with the quantity it had.
UnchangedEdit ==
  /\ ReceiptSubmitted
  /\ call.submit.op = "edit"
  /\ call.submit.stored[call.submit.id] = call.submit.record

UnchangedEditAccepted == UnchangedEdit => call.submit.error = <<>>

\* C38 - no over-delivery: a confirmed receipt that names a purchase order is
\* rejected at submit when the quantity already confirmed as received for the
\* PO number and the item plus the quantity of the receipt exceeds the ordered
\* quantity; so the confirmed received quantity never exceeds the ordered
\* quantity; and the edit of an already confirmed receipt that leaves the
\* quantity as it is, is accepted.
NoOverDelivery ==
  /\ OverDeliveryRejected
  /\ ReceivedWithinOrder
  /\ UnchangedEditAccepted

\* A second receipt of 60 against an order of 100 of which 60 are received was
\* rejected for over-delivery and app 760 stayed as it was.
OverDeliveryRefused ==
  /\ ReceiptSubmitted
  /\ call.submit.op = "create"
  /\ ReceivedBefore > 0
  /\ ReceivedBefore <= 100
  /\ ReceivedBefore + call.submit.record.quantity > 100
  /\ call.submit.error = <<"over-delivery">>
  /\ txStore = call.submit.stored

=============================================================================
